---------------------------- MODULE Spec2Model ----------------------------
(***************************************************************************)
(* Combat resolution and character progression of the Superheroes vs       *)
(* Villanos API: the Personaje model (src/models/Personaje.js), the 1v1    *)
(* duel and the scripted team battles (src/controllers/fightController.js) *)
(* over the persisted character list (src/repositories/heroRepository.js)  *)
(* and the stored fight list.                                              *)
(*                                                                         *)
(* Numbers.  vida is a JavaScript number that takes fractional values once *)
(* a shield has mitigated a hit (danio - danio * escudo/100).  The model   *)
(* keeps every vida in hundredths (vida 100 is 10000), which makes all     *)
(* values of the duel exact integers; raw attack values, charge, threshold *)
(* level, experience and shield stay plain integers.  The flat team-battle *)
(* healths are integers in the code (100, -5, -30, -45) and are kept       *)
(* unscaled.                                                               *)
(***************************************************************************)
EXTENDS Integers, Sequences, FiniteSets, TLC

(***************************************************************************)
(* Program constants.                                                      *)
(***************************************************************************)
NivelMax == 10          \* Personaje.js: this.nivel >= 10 / this.nivel < 10
ExpPorNivel == 100      \* Personaje.js: totalExp >= 100, totalExp -= 100
VidaBase == 100         \* Personaje.js: 100 + (nivel - 1) * 5
VidaPorNivel == 5
EscudoPorNivel == 5     \* Personaje.js: escudo = (nivel - 1) * 5
UmbralInicial == 150    \* Personaje.js: umbralUltimate = 150
BasicoBase == 5         \* Personaje.js: 5 + (nivel - 1) * 1
EspecialBase == 30      \* Personaje.js: 30 + (nivel - 1) * 10
EspecialPorNivel == 10
UltimateBase == 80      \* Personaje.js: 80 + (nivel - 1) * 10
UltimatePorNivel == 10
ExpGanador == 40        \* fightController.js: sim.ganarExperiencia(40)
ExpPerdedor == 25       \* fightController.js: sim.ganarExperiencia(25)
PorCien == 100          \* Personaje.js: danio * (this.escudo / 100); also the
                        \* number of hundredths in one point of vida

(***************************************************************************)
(* Bounds of the model.                                                    *)
(***************************************************************************)
MaxOps == 1             \* Personaje methods applied in a row (SpecPersonaje)
MaxPeleas == 2          \* POST /fights requests accepted (SpecDuelo)
MaxDebiles == 1         \* basic-based outcomes the random source yields in a run
MaxPeticiones == 2      \* team-battle requests accepted (SpecEquipos)
MaxGolpes == 2          \* Personaje combat methods applied in a row (SpecCombate)
MaxSolapadas == 2       \* requests in flight at once (SpecDuelosSolapados, SpecEquiposSolapados)

VARIABLES
    pj,         \* SpecPersonaje: the Personaje object under test
    pj0,        \* SpecPersonaje: the object before the last method call
    llamada,    \* SpecPersonaje: the last method call, <<name, argument>>
    nops,       \* SpecPersonaje: number of method calls made
    retorno,    \* the value the last method call returned (0 if none)
    personajes, \* the persisted character list (personajes.json)
    fights,     \* the stored fight list
    pc,         \* POST /fights: "idle", or "bucle" inside the turn loop
    cargados,   \* POST /fights: the list loaded by getAllPersonajes()
    sim1, sim2, \* POST /fights: the simulation copies
    turno,      \* POST /fights: turn counter
    historia,   \* POST /fights: the turn log (attacker and defender ids)
    golpe,      \* POST /fights: the last turn-log entry in full
    debiles,    \* basic-based draws the random source has yielded so far
    resp,       \* the last response sent
    npeleas,    \* POST /fights requests accepted so far
    reconstruido, \* team battles: the queues the last continuation rebuilt
    npet,       \* team battles: requests accepted so far
    simulado,   \* simulated team battle: the handler's locals
    asignados,  \* the fightIds created records have received, in order
    enCurso     \* overlapping requests: the locals of each handler in flight

varsPersonaje == <<pj, pj0, llamada, nops, retorno>>
varsDuelo == <<pc, cargados, sim1, sim2, turno, historia, golpe, debiles>>
varsAlmacen == <<personajes, fights>>
varsEquipos == <<reconstruido, npet>>
varsSimulado == <<simulado>>
vars == <<pj, pj0, llamada, nops, personajes, fights, pc, cargados, sim1,
          sim2, turno, historia, golpe, debiles, resp, npeleas,
          reconstruido, npet, retorno, simulado, asignados, enCurso>>

(***************************************************************************)
(* Personaje (src/models/Personaje.js)                                     *)
(***************************************************************************)
Min(a, b) == IF a <= b THEN a ELSE b

\* Math.round(x / d) for integers x >= 0, d > 0: halves round up.
roundDiv(x, d) == (2 * x + d) \div (2 * d)

\* Faulty variant: the health of level 1 at every level.
vidaDeNivelSinNivel(nivel) == VidaBase * PorCien

\* constructor: this.vida = 100 + (this.nivel - 1) * 5   (in hundredths)
vidaDeNivel(nivel) == (VidaBase + (nivel - 1) * VidaPorNivel) * PorCien

\* Faulty variant: the shield is computed from the new level, not from
\* the new level minus one.
subirNivelEscudoDeMas(p) ==
    IF p.nivel < NivelMax
    THEN [p EXCEPT !.nivel = p.nivel + 1,
                   !.vida = vidaDeNivel(p.nivel + 1),
                   !.escudo = (p.nivel + 1) * EscudoPorNivel,
                   !.umbralUltimate = roundDiv(p.umbralUltimate * 11, 10)]
    ELSE p

\* Faulty variant: the threshold is truncated (Math.floor) instead of rounded.
subirNivelTruncando(p) ==
    IF p.nivel < NivelMax
    THEN [p EXCEPT !.nivel = p.nivel + 1,
                   !.vida = vidaDeNivel(p.nivel + 1),
                   !.escudo = p.nivel * EscudoPorNivel,
                   !.umbralUltimate = (p.umbralUltimate * 11) \div 10]
    ELSE p

\* subirNivel()
subirNivel(p) ==
    IF p.nivel < NivelMax
    THEN [p EXCEPT !.nivel = p.nivel + 1,
                   !.vida = vidaDeNivel(p.nivel + 1),
                   !.escudo = p.nivel * EscudoPorNivel,
                   !.umbralUltimate = roundDiv(p.umbralUltimate * 11, 10)]
    ELSE p

\* the while loop of ganarExperiencia: the object and totalExp at loop exit
RECURSIVE bucleExperiencia(_, _)
bucleExperiencia(p, totalExp) ==
    IF totalExp >= ExpPorNivel /\ p.nivel < NivelMax
    THEN bucleExperiencia(subirNivel(p), totalExp - ExpPorNivel)
    ELSE <<p, totalExp>>

\* Faulty variant: at level 10 the amount is added instead of pinning 100.
ganarExperienciaSinTope(p, cantidad) ==
    IF p.nivel >= NivelMax
    THEN [p EXCEPT !.experiencia = p.experiencia + cantidad]
    ELSE LET r == bucleExperiencia(p, p.experiencia + cantidad)
             q == r[1]
         IN  [q EXCEPT !.experiencia =
                          IF q.nivel < NivelMax THEN r[2] ELSE ExpPorNivel]

\* Faulty variant: `if` instead of `while`, one level-up at most per call.
ganarExperienciaSinTraspaso(p, cantidad) ==
    IF p.nivel >= NivelMax
    THEN [p EXCEPT !.experiencia = ExpPorNivel]
    ELSE LET total == p.experiencia + cantidad
             q == IF total >= ExpPorNivel THEN subirNivel(p) ELSE p
             resto == IF total >= ExpPorNivel THEN total - ExpPorNivel ELSE total
         IN  [q EXCEPT !.experiencia =
                          IF q.nivel < NivelMax THEN resto ELSE ExpPorNivel]

\* ganarExperiencia(cantidad)
ganarExperiencia(p, cantidad) ==
    IF p.nivel >= NivelMax
    THEN [p EXCEPT !.experiencia = ExpPorNivel]
    ELSE LET r == bucleExperiencia(p, p.experiencia + cantidad)
             q == r[1]
         IN  [q EXCEPT !.experiencia =
                          IF q.nivel < NivelMax THEN r[2] ELSE ExpPorNivel]

getAtaqueBasico(p) == BasicoBase + (p.nivel - 1) * 1
getAtaqueEspecial(p) == EspecialBase + (p.nivel - 1) * EspecialPorNivel
\* Math.round(base * 1.5)
getAtaqueCritico(base) == roundDiv(base * 3, 2)
\* Faulty variant: the ultimate does not grow with the level.
getAtaqueUltimateSinNivel(p) == UltimateBase

getAtaqueUltimate(p) == UltimateBase + (p.nivel - 1) * UltimatePorNivel

\* recibirDanio(danio, esUltimate): danio is a raw attack value; the health
\* removed is danio - danio * (escudo / 100), i.e. danio * (100 - escudo)
\* hundredths.
\* Faulty variant: the shield taken as points of damage, not as a percentage.
danioEfectivoEnPuntos(p, danio, esUltimate) ==
    IF ~esUltimate /\ p.escudo > 0
    THEN (danio - p.escudo) * PorCien
    ELSE danio * PorCien

\* Faulty variant: the shield mitigates an ultimate too.
danioEfectivoConEscudo(p, danio, esUltimate) ==
    IF p.escudo > 0
    THEN danio * PorCien - danio * p.escudo
    ELSE danio * PorCien

danioEfectivo(p, danio, esUltimate) ==
    IF ~esUltimate /\ p.escudo > 0
    THEN danio * PorCien - danio * p.escudo
    ELSE danio * PorCien

\* Faulty variant: without `if (this.vida < 0) this.vida = 0`.
recibirDanioSinPiso(p, danio, esUltimate) ==
    [p EXCEPT !.vida = p.vida - danioEfectivo(p, danio, esUltimate)]

recibirDanio(p, danio, esUltimate) ==
    LET v == p.vida - danioEfectivo(p, danio, esUltimate)
    IN  [p EXCEPT !.vida = IF v < 0 THEN 0 ELSE v]

\* Faulty variant: the charge grows by the attack as the attacker's own
\* shield would mitigate it.
cargarUltimateMitigado(p, danio) ==
    IF p.nivel >= NivelMax /\ p.danoUltimate >= p.umbralUltimate
    THEN p
    ELSE LET c == p.danoUltimate + roundDiv(danio * (PorCien - p.escudo), PorCien)
         IN  [p EXCEPT !.danoUltimate = c,
                       !.ultimateDisponible =
                           IF c >= p.umbralUltimate THEN TRUE ELSE @]

\* Faulty variant: without the early return at the maximum level.
cargarUltimateSinTope(p, danio) ==
    LET c == p.danoUltimate + danio
    IN  [p EXCEPT !.danoUltimate = c,
                  !.ultimateDisponible =
                      IF c >= p.umbralUltimate THEN TRUE ELSE @]

\* cargarUltimate(danio)
cargarUltimate(p, danio) ==
    IF p.nivel >= NivelMax /\ p.danoUltimate >= p.umbralUltimate
    THEN p
    ELSE LET c == p.danoUltimate + danio
         IN  [p EXCEPT !.danoUltimate = c,
                       !.ultimateDisponible =
                           IF c >= p.umbralUltimate THEN TRUE ELSE @]

\* Faulty variant: the charge is not reset.
usarUltimateSinReinicio(p) ==
    IF p.ultimateDisponible
    THEN [p EXCEPT !.ultimateDisponible = FALSE]
    ELSE p

\* usarUltimate(): the object after the call, and the value returned
usarUltimate(p) ==
    IF p.ultimateDisponible
    THEN [p EXCEPT !.danoUltimate = 0, !.ultimateDisponible = FALSE]
    ELSE p

usarUltimateRet(p) == IF p.ultimateDisponible THEN getAtaqueUltimate(p) ELSE 0

\* The threshold after the level-ups that lead from level 1 to `nivel`.
RECURSIVE umbralDeNivel(_)
umbralDeNivel(nivel) ==
    IF nivel <= 1 THEN UmbralInicial
    ELSE roundDiv(umbralDeNivel(nivel - 1) * 11, 10)

\* new Personaje(id, nombre, ciudad, tipo, equipo, nivel, ...): the fields
\* the combat engine reads (nombre and ciudad play no part in it).
Personaje(id, tipo, equipo, nivel, experiencia, escudo, danoUlt, umbral, disp) ==
    [id |-> id, tipo |-> tipo, equipo |-> equipo, nivel |-> nivel,
     experiencia |-> experiencia, escudo |-> escudo,
     danoUltimate |-> danoUlt, umbralUltimate |-> umbral,
     ultimateDisponible |-> disp, vida |-> vidaDeNivel(nivel)]

\* A character as level-ups from level 1 leave it.
PersonajeDeNivel(id, tipo, equipo, nivel, experiencia, danoUlt) ==
    Personaje(id, tipo, equipo, nivel, experiencia,
              (nivel - 1) * EscudoPorNivel, danoUlt, umbralDeNivel(nivel),
              danoUlt >= umbralDeNivel(nivel))

(***************************************************************************)
(* The persisted character list (src/repositories/heroRepository.js, the   *)
(* JSON-file repository the controllers' getAllPersonajes() and            *)
(* updateAllPersonajes() go through).                                      *)
(***************************************************************************)
\* v || d of JavaScript for a number v
oPorDefecto(v, d) == IF v = 0 THEN d ELSE v

\* getPersonajes(): every stored record becomes a new Personaje; the stored
\* vida is not passed to the constructor, which recomputes it from nivel.
getPersonajes(almacen) ==
    [i \in DOMAIN almacen |->
        LET p == almacen[i]
        IN  Personaje(p.id, p.tipo, p.equipo, oPorDefecto(p.nivel, 1),
                      p.experiencia, p.escudo, p.danoUltimate,
                      oPorDefecto(p.umbralUltimate, UmbralInicial),
                      p.ultimateDisponible)]

\* savePersonajes(personajes): the listed fields of every element
savePersonajes(lista) ==
    [i \in DOMAIN lista |->
        [id |-> lista[i].id, tipo |-> lista[i].tipo,
         equipo |-> lista[i].equipo, nivel |-> lista[i].nivel,
         experiencia |-> lista[i].experiencia, escudo |-> lista[i].escudo,
         vida |-> lista[i].vida, danoUltimate |-> lista[i].danoUltimate,
         umbralUltimate |-> lista[i].umbralUltimate,
         ultimateDisponible |-> lista[i].ultimateDisponible]]

\* personajes.find(p => p.id === id): the index of the first match, 0 if none
buscar(lista, id) ==
    IF \E i \in DOMAIN lista : lista[i].id = id
    THEN CHOOSE i \in DOMAIN lista :
             /\ lista[i].id = id
             /\ \A j \in 1..(i - 1) : lista[j].id # id
    ELSE 0

\* fights.length > 0 ? Math.max(...fights.map(f => f.fightId)) + 1 : 1
nuevoFightId(lista) ==
    IF Len(lista) > 0
    THEN (CHOOSE m \in {lista[i].fightId : i \in DOMAIN lista} :
              \A i \in DOMAIN lista : lista[i].fightId <= m) + 1
    ELSE 1

(***************************************************************************)
(* POST /fights, full simulation (fightController.js 104-217)              *)
(***************************************************************************)
Tiradas == {"criticoBasico", "criticoEspecial", "especial", "basico"}
TiradasDebiles == {"criticoBasico", "basico"}

\* the attack value of a turn without ultimate, by the outcome of the draws
ataqueDeTirada(atacante, tirada) ==
    CASE tirada = "criticoBasico" -> getAtaqueCritico(getAtaqueBasico(atacante))
      [] tirada = "criticoEspecial" -> getAtaqueCritico(getAtaqueEspecial(atacante))
      [] tirada = "especial" -> getAtaqueEspecial(atacante)
      [] OTHER -> getAtaqueBasico(atacante)

\* Faulty variant: the first combatant attacks on odd turns.
atacaPrimeroEnImpares(t) == t % 2 = 1

\* turno % 2 === 0 ? sim1 attacks : sim2 attacks
atacaPrimero(t) == t % 2 = 0

\* while (sim1.vida > 0 && sim2.vida > 0)
sigueDuelo(s1, s2) == s1.vida > 0 /\ s2.vida > 0

\* if (sim1.vida > 0) ganador = sim1; else ganador = sim2
\* Faulty variant: the branches of the winner selection swapped.
ganadorDeAlReves(s1, s2) == IF s1.vida > 0 THEN s2 ELSE s1

ganadorDe(s1, s2) == IF s1.vida > 0 THEN s1 ELSE s2

\* Faulty variant: the two rewards exchanged.
expOtorgadaAlReves(ganador, p) ==
    IF ganador.id = p.id THEN ExpPerdedor ELSE ExpGanador

\* ganador.id === p.id ? 40 : 25
expOtorgada(ganador, p) == IF ganador.id = p.id THEN ExpGanador ELSE ExpPerdedor

\* p.nivel = sim.nivel; ... p.ultimateDisponible = sim.ultimateDisponible
copiarEnOriginal(p, sim) ==
    [p EXCEPT !.nivel = sim.nivel, !.experiencia = sim.experiencia,
              !.escudo = sim.escudo, !.vida = sim.vida,
              !.danoUltimate = sim.danoUltimate,
              !.umbralUltimate = sim.umbralUltimate,
              !.ultimateDisponible = sim.ultimateDisponible]

SinGolpe == [atacante |-> 0, defensor |-> 0, tipo |-> "", ataque |-> 0,
             esUltimate |-> FALSE, vidaAntes |-> 0, vidaDespues |-> 0]
SinSim == Personaje(0, "", "", 1, 0, 0, 0, UmbralInicial, FALSE)
SinResp == [status |-> 0, error |-> "", ganador |-> 0, fightId |-> 0,
            personaje1 |-> 0, personaje2 |-> 0, resultado |-> "",
            ronda |-> 0]
\* The simulated team battle before any request
SinSimulado ==
    [pc |-> "idle", vivosHeroes |-> <<>>, vivosVillanos |-> <<>>, i |-> 0,
     turno |-> 0, rondas |-> <<>>]

SinColas == [fightId |-> 0, heroes |-> <<>>, villanos |-> <<>>,
             previo |-> <<>>]

\* Faulty variant: the kinds are not compared.
PostFightsInicioSinTipo(id1, id2) ==
    /\ pc = "idle"
    /\ npeleas < MaxPeleas
    /\ LET lista == getPersonajes(personajes)
           i1 == buscar(lista, id1)
           i2 == buscar(lista, id2)
       IN  /\ i1 # 0 /\ i2 # 0
           /\ cargados' = lista
           /\ sim1' = [lista[i1] EXCEPT !.vida = vidaDeNivel(lista[i1].nivel)]
           /\ sim2' = [lista[i2] EXCEPT !.vida = vidaDeNivel(lista[i2].nivel)]
    /\ historia' = <<>>
    /\ golpe' = SinGolpe
    /\ turno' = 0
    /\ pc' = "bucle"
    /\ npeleas' = npeleas + 1
    /\ UNCHANGED <<varsPersonaje, varsAlmacen, varsEquipos, simulado, enCurso,
                   asignados, debiles, resp>>

\* The request is accepted: both ids resolve and the kinds differ.
PostFightsInicio(id1, id2) ==
    /\ pc = "idle"
    /\ npeleas < MaxPeleas
    /\ LET lista == getPersonajes(personajes)
           i1 == buscar(lista, id1)
           i2 == buscar(lista, id2)
       IN  /\ i1 # 0 /\ i2 # 0
           /\ lista[i1].tipo # lista[i2].tipo
           /\ cargados' = lista
           /\ sim1' = [lista[i1] EXCEPT !.vida = vidaDeNivel(lista[i1].nivel)]
           /\ sim2' = [lista[i2] EXCEPT !.vida = vidaDeNivel(lista[i2].nivel)]
    /\ historia' = <<>>
    /\ golpe' = SinGolpe
    /\ turno' = 0
    /\ pc' = "bucle"
    /\ npeleas' = npeleas + 1
    /\ UNCHANGED <<varsPersonaje, varsAlmacen, varsEquipos, simulado, enCurso,
                   asignados, debiles, resp>>

\* 400: an id does not resolve, or both characters are of the same kind.
PostFightsRechazo(id1, id2) ==
    /\ pc = "idle"
    /\ LET lista == getPersonajes(personajes)
           i1 == buscar(lista, id1)
           i2 == buscar(lista, id2)
       IN  \/ /\ i1 = 0 \/ i2 = 0
              /\ resp' = [SinResp EXCEPT !.status = 400, !.error = "noExiste"]
           \/ /\ i1 # 0 /\ i2 # 0
              /\ lista[i1].tipo = lista[i2].tipo
              /\ resp' = [SinResp EXCEPT !.status = 400, !.error = "mismoTipo"]
    /\ UNCHANGED <<varsPersonaje, varsAlmacen, varsEquipos, simulado, enCurso,
                   asignados, varsDuelo, npeleas>>

\* One iteration of the loop; `conUltimate` is atacante.ultimateDisponible
\* and `tirada` the outcome of the Math.random() draws of the else branch.
UnTurno(conUltimate, tirada) ==
    LET atacante == IF atacaPrimero(turno) THEN sim1 ELSE sim2
        defensor == IF atacaPrimero(turno) THEN sim2 ELSE sim1
        ataque == IF conUltimate THEN usarUltimateRet(atacante)
                  ELSE ataqueDeTirada(atacante, tirada)
        trasUsar == IF conUltimate THEN usarUltimate(atacante) ELSE atacante
        defensorN == recibirDanio(defensor, ataque, conUltimate)
        atacanteN == cargarUltimate(trasUsar, ataque)
    IN  /\ pc = "bucle"
        /\ sigueDuelo(sim1, sim2)
        /\ atacante.ultimateDisponible = conUltimate
        /\ sim1' = IF atacaPrimero(turno) THEN atacanteN ELSE defensorN
        /\ sim2' = IF atacaPrimero(turno) THEN defensorN ELSE atacanteN
        /\ historia' = Append(historia, [atacante |-> atacante.id,
                                         defensor |-> defensor.id])
        /\ golpe' = [atacante |-> atacante.id, defensor |-> defensor.id,
                     tipo |-> IF conUltimate THEN "ultimate" ELSE tirada,
                     ataque |-> ataque, esUltimate |-> conUltimate,
                     vidaAntes |-> defensor.vida,
                     vidaDespues |-> defensorN.vida]
        /\ turno' = turno + 1
        /\ UNCHANGED <<varsPersonaje, varsAlmacen, varsEquipos, simulado, enCurso,
                       asignados, pc, cargados, resp,
                     npeleas>>

TurnoUltimate ==
    /\ UnTurno(TRUE, "ultimate")
    /\ UNCHANGED debiles

TurnoAlAzar ==
    \E tirada \in Tiradas :
        /\ tirada \in TiradasDebiles => debiles < MaxDebiles
        /\ UnTurno(FALSE, tirada)
        /\ debiles' = IF tirada \in TiradasDebiles THEN debiles + 1 ELSE debiles

\* After the loop: experience, write-back onto the loaded originals, save.
PostFightsFin ==
    /\ pc = "bucle"
    /\ ~sigueDuelo(sim1, sim2)
    /\ LET ganador == ganadorDe(sim1, sim2)
           i1 == buscar(cargados, sim1.id)
           i2 == buscar(cargados, sim2.id)
           simDe(p) == IF p.id = sim1.id THEN sim1 ELSE sim2
           trasExp(p) == ganarExperiencia(simDe(p), expOtorgada(ganador, p))
           lista == [i \in DOMAIN cargados |->
                        IF i = i1 \/ i = i2
                        THEN copiarEnOriginal(cargados[i], trasExp(cargados[i]))
                        ELSE cargados[i]]
       IN  /\ personajes' = savePersonajes(lista)
           /\ resp' = [SinResp EXCEPT !.status = 200, !.ganador = ganador.id,
                                      !.personaje1 = sim1.id,
                                      !.personaje2 = sim2.id]
    \* the handler returns: its locals are gone
    /\ pc' = "idle"
    /\ cargados' = <<>>
    /\ sim1' = SinSim
    /\ sim2' = SinSim
    /\ turno' = 0
    /\ historia' = <<>>
    /\ golpe' = SinGolpe
    /\ UNCHANGED <<varsPersonaje, varsEquipos, simulado, enCurso, asignados, fights,
                   debiles, npeleas>>

(***************************************************************************)
(* POST /fights, random-winner variant (fightController.js 939-979)        *)
(***************************************************************************)
\* A stored fight: a 1v1 record defines personaje1, personaje2 and winner, a
\* team record equipoHeroes, equipoVillanos, resultado and historial; a field
\* the record does not define holds the value given here, and `conHistorial`
\* tells whether historial is defined.  Names stand for themselves as ids.
SinFight == [fightId |-> 0, personaje1 |-> 0, personaje2 |-> 0, winner |-> 0,
             conHistorial |-> FALSE, equipoHeroes |-> <<>>,
             equipoVillanos |-> <<>>, resultado |-> "", historial |-> <<>>]

\* A handler of the overlapping requests before its request arrives: `pc` is
\* the await it is suspended at, the other fields are its locals.
SinCurso == [pc |-> "libre", personajes |-> <<>>, sim1 |-> SinSim,
             sim2 |-> SinSim, turno |-> 0, fight |-> SinFight,
             fightsAll |-> <<>>, newFightId |-> 0, finalizada |-> FALSE,
             status |-> 0]
Solapadas == 1..MaxSolapadas
SinCursos == [k \in Solapadas |-> SinCurso]

PostFightsAleatorio(id1, id2) ==
    /\ pc = "idle"
    /\ npeleas < MaxPeleas
    /\ LET lista == getPersonajes(personajes)
           i1 == buscar(lista, id1)
           i2 == buscar(lista, id2)
       IN  /\ i1 # 0 /\ i2 # 0
           /\ lista[i1].tipo # lista[i2].tipo
           /\ \E winner \in {id1, id2} :
                 LET fightId == nuevoFightId(fights)
                 IN  /\ fights' = Append(fights,
                            [SinFight EXCEPT !.fightId = fightId,
                                             !.personaje1 = id1,
                                             !.personaje2 = id2,
                                             !.winner = winner])
                     /\ resp' = [SinResp EXCEPT !.status = 200,
                                    !.ganador = winner, !.fightId = fightId,
                                    !.personaje1 = id1, !.personaje2 = id2]
                     /\ asignados' = Append(asignados, fightId)
    /\ npeleas' = npeleas + 1
    /\ UNCHANGED <<varsPersonaje, varsEquipos, simulado, enCurso, personajes,
                   varsDuelo>>

(***************************************************************************)
(* SpecDuelo: 1v1 fights between persisted characters.                     *)
(***************************************************************************)
\* <<level of character 1, level of character 2, experience of both>>
ConfigsIniciales == {<<1, 1, 0>>, <<1, NivelMax, 75>>,
                     <<NivelMax - 1, NivelMax, 75>>, <<NivelMax, NivelMax, 0>>}
ParesPedidos == {<<1, 2>>, <<2, 1>>, <<1, 3>>, <<4, 2>>, <<1, 1>>}

SinPersonaje == PersonajeDeNivel(1, "superheroe", "", 1, 0, 0)

\* Charge carried over from earlier duels (below every threshold)
CargasPrevias == {0, 140}

InitDueloDe(cargas) ==
    /\ \E c \in ConfigsIniciales : \E k \in cargas :
          personajes = savePersonajes(
              <<PersonajeDeNivel(1, "superheroe", "", c[1], c[3], k),
                PersonajeDeNivel(2, "villano", "", c[2], c[3], k),
                PersonajeDeNivel(3, "superheroe", "", 1, 0, 0)>>)
    /\ fights = <<>>
    /\ pc = "idle"
    /\ cargados = <<>>
    /\ sim1 = SinSim
    /\ sim2 = SinSim
    /\ turno = 0
    /\ historia = <<>>
    /\ golpe = SinGolpe
    /\ debiles = 0
    /\ resp = SinResp
    /\ npeleas = 0
    /\ pj = SinPersonaje
    /\ pj0 = SinPersonaje
    /\ llamada = <<"new", 0>>
    /\ nops = 0
    /\ retorno = 0
    /\ reconstruido = SinColas
    /\ npet = 0
    /\ simulado = SinSimulado
    /\ enCurso = SinCursos
    /\ asignados = <<>>

NextDuelo ==
    \/ \E par \in ParesPedidos : PostFightsInicio(par[1], par[2])
    \/ \E par \in ParesPedidos : PostFightsRechazo(par[1], par[2])
    \/ TurnoUltimate
    \/ TurnoAlAzar
    \/ PostFightsFin

InitDuelo == InitDueloDe({0})

SpecDuelo == InitDuelo /\ [][NextDuelo]_vars

\* SpecEspectador: duels of the villain with either hero, the other hero
\* looking on.
ParesConEspectador == {<<1, 2>>, <<3, 2>>}

NextEspectador ==
    \/ \E par \in ParesConEspectador : PostFightsInicio(par[1], par[2])
    \/ TurnoUltimate
    \/ TurnoAlAzar
    \/ PostFightsFin

SpecEspectador == InitDuelo /\ [][NextEspectador]_vars

\* One duel from each initial configuration, with or without charge carried
\* over.  The handler runs its loop to completion once started: each enabled
\* step of the request in progress is eventually taken.
InitDueloJusto == InitDueloDe(CargasPrevias)

NextDueloJusto ==
    \/ \E par \in ParesPedidos : npeleas = 0 /\ PostFightsInicio(par[1], par[2])
    \/ \E par \in ParesPedidos : PostFightsRechazo(par[1], par[2])
    \/ TurnoUltimate
    \/ TurnoAlAzar
    \/ PostFightsFin

SpecDueloJusto ==
    /\ InitDueloJusto /\ [][NextDueloJusto]_vars
    /\ WF_vars(TurnoUltimate)
    /\ WF_vars(TurnoAlAzar)
    /\ WF_vars(PostFightsFin)

(***************************************************************************)
(* SpecPersonaje: the methods of one Personaje applied to drawn inputs.    *)
(***************************************************************************)
Niveles == 1..NivelMax
Cantidades == {0, 1, 25, 40, 99, 100, 101, 250, 899, 900, 1000}

InitPersonaje ==
    /\ \E nivel \in Niveles :
       \E e \in 0..(IF nivel = NivelMax THEN ExpPorNivel ELSE ExpPorNivel - 1) :
       \E lleno \in BOOLEAN :
          pj = PersonajeDeNivel(1, "superheroe", "", nivel, e,
                                IF lleno THEN umbralDeNivel(nivel) ELSE 0)
    /\ pj0 = pj
    /\ llamada = <<"new", 0>>
    /\ nops = 0
    /\ retorno = 0
    /\ personajes = <<>>
    /\ fights = <<>>
    /\ pc = "idle"
    /\ cargados = <<>>
    /\ sim1 = SinSim
    /\ sim2 = SinSim
    /\ turno = 0
    /\ historia = <<>>
    /\ golpe = SinGolpe
    /\ debiles = 0
    /\ resp = SinResp
    /\ npeleas = 0
    /\ reconstruido = SinColas
    /\ npet = 0
    /\ simulado = SinSimulado
    /\ enCurso = SinCursos
    /\ asignados = <<>>

LlamarGanarExperiencia ==
    /\ nops < MaxOps
    /\ \E cantidad \in Cantidades :
          /\ pj' = ganarExperiencia(pj, cantidad)
          /\ llamada' = <<"ganarExperiencia", cantidad>>
    /\ pj0' = pj
    /\ nops' = nops + 1
    /\ UNCHANGED retorno
    /\ UNCHANGED <<varsAlmacen, varsEquipos, simulado, enCurso, asignados, varsDuelo,
                   resp, npeleas>>

NextPersonaje == LlamarGanarExperiencia

SpecPersonaje == InitPersonaje /\ [][NextPersonaje]_vars

(***************************************************************************)
(* SpecCombate: the combat methods of one Personaje (subirNivel,           *)
(* recibirDanio, cargarUltimate, usarUltimate) applied to drawn inputs.    *)
(***************************************************************************)
\* Raw attack values: none, basic and special attacks, criticals, ultimates
\* of levels 1 and 10, and one beyond every health.
Danios == {0, 5, 14, 45, 80, 170, 400}

\* Charge at construction: none, just below the threshold, at the threshold
CargasIniciales(nivel) == {0, umbralDeNivel(nivel) - 5, umbralDeNivel(nivel)}

InitCombate ==
    /\ \E nivel \in Niveles : \E carga \in CargasIniciales(nivel) :
          pj = PersonajeDeNivel(1, "superheroe", "", nivel, 0, carga)
    /\ pj0 = pj
    /\ llamada = <<"new", 0>>
    /\ nops = 0
    /\ retorno = 0
    /\ personajes = <<>>
    /\ fights = <<>>
    /\ pc = "idle"
    /\ cargados = <<>>
    /\ sim1 = SinSim
    /\ sim2 = SinSim
    /\ turno = 0
    /\ historia = <<>>
    /\ golpe = SinGolpe
    /\ debiles = 0
    /\ resp = SinResp
    /\ npeleas = 0
    /\ reconstruido = SinColas
    /\ npet = 0
    /\ simulado = SinSimulado
    /\ enCurso = SinCursos
    /\ asignados = <<>>

\* One method call on the object: `despues` is the object after the call
Llamar(nombre, argumento, despues, valor) ==
    /\ nops < MaxGolpes
    /\ pj' = despues
    /\ pj0' = pj
    /\ llamada' = <<nombre, argumento>>
    /\ retorno' = valor
    /\ nops' = nops + 1
    /\ UNCHANGED <<varsAlmacen, varsEquipos, simulado, enCurso, asignados, varsDuelo,
                   resp, npeleas>>

LlamarSubirNivel == Llamar("subirNivel", 0, subirNivel(pj), 0)

LlamarRecibirDanio ==
    \E danio \in Danios : \E esUltimate \in BOOLEAN :
        Llamar("recibirDanio", <<danio, esUltimate>>,
               recibirDanio(pj, danio, esUltimate), 0)

LlamarCargarUltimate ==
    \E danio \in Danios :
        Llamar("cargarUltimate", danio, cargarUltimate(pj, danio), 0)

LlamarUsarUltimate ==
    Llamar("usarUltimate", 0, usarUltimate(pj), usarUltimateRet(pj))

NextCombate ==
    \/ LlamarSubirNivel
    \/ LlamarRecibirDanio
    \/ LlamarCargarUltimate
    \/ LlamarUsarUltimate

SpecCombate == InitCombate /\ [][NextCombate]_vars

(***************************************************************************)
(* Team battles (fightController.js: POST /fights/teams/start 304-418,     *)
(* POST /fights/teams/continue 501-618, POST /fights/teams 1085-1215).     *)
(* Healths of a team battle are whole points: 100 at the start, less 5, 30 *)
(* or 45 per hit.                                                          *)
(***************************************************************************)
VidaEquipo == 100       \* fightController.js: { ...p, vida: 100 }
DanoBasico == 5         \* fightController.js: daño = -5
DanoEspecial == 30      \* fightController.js: daño = -30
DanoCritico == 45       \* fightController.js: daño = -45
TamEquipo == 3          \* fightController.js: slice(0, 3), length !== 3

GolpesValidos == {"basico", "especial", "critico"}

\* Faulty variant: a special hit takes as much as a critical one.
danoDeGolpeEspecialDeMas(tipoGolpe) ==
    CASE tipoGolpe = "basico" -> 0 - DanoBasico
      [] tipoGolpe = "especial" -> 0 - DanoCritico
      [] tipoGolpe = "critico" -> 0 - DanoCritico

danoDeGolpe(tipoGolpe) ==
    CASE tipoGolpe = "basico" -> 0 - DanoBasico
      [] tipoGolpe = "especial" -> 0 - DanoEspecial
      [] tipoGolpe = "critico" -> 0 - DanoCritico

\* personajes.filter(p => p.equipo === equipo && p.tipo === tipo).slice(0, 3)
equipoDe(lista, equipo, tipo) ==
    LET filtrados == SelectSeq(lista, LAMBDA p : p.equipo = equipo /\ p.tipo = tipo)
    IN  SubSeq(filtrados, 1, Min(TamEquipo, Len(filtrados)))

\* heroes.map(p => ({ ...p, vida: 100 }))
colaNueva(equipo) ==
    [i \in DOMAIN equipo |-> [equipo[i] EXCEPT !.vida = VidaEquipo]]

\* vivos.map(h => ({ nombre: h.nombre, vida: h.vida }))
instantanea(vivos) ==
    [i \in DOMAIN vivos |-> [id |-> vivos[i].id, vida |-> vivos[i].vida]]

\* last?.vidasHeroes?.find(vh => vh.nombre === h.nombre)?.vida ?? 100
vidaEnInstantanea(vidas, id) ==
    IF \E k \in DOMAIN vidas : vidas[k].id = id
    THEN vidas[CHOOSE k \in DOMAIN vidas :
                   /\ vidas[k].id = id
                   /\ \A j \in 1..(k - 1) : vidas[j].id # id].vida
    ELSE VidaEquipo

\* heroes.map(h => ({ ...h, vida: <health of h in the last snapshot> }))
colaReconstruida(equipo, historial, campo) ==
    [i \in DOMAIN equipo |->
        [equipo[i] EXCEPT
            !.vida = IF Len(historial) > 0
                     THEN vidaEnInstantanea(
                              IF campo = "vidasHeroes"
                              THEN historial[Len(historial)].vidasHeroes
                              ELSE historial[Len(historial)].vidasVillanos,
                              equipo[i].id)
                     ELSE VidaEquipo]]

\* Faulty variant: an invalid round ends the loop like a `break`, without
\* the 400.
RECURSIVE procesarRondasSinValidar(_, _)
procesarRondasSinValidar(est, rondas) ==
    IF rondas = <<>> THEN est
    ELSE IF est.vh = <<>> \/ est.vv = <<>>
    THEN [est EXCEPT !.finalizada = TRUE]
    ELSE LET round == Head(rondas)
         IN  IF \/ round.tipoGolpe \notin GolpesValidos
                \/ round.atacante \notin {"heroe", "villano"}
             THEN est
             ELSE
               LET esHeroe == round.atacante = "heroe"
                   atacante == IF esHeroe THEN est.vh[1] ELSE est.vv[1]
                   defensor == IF esHeroe THEN est.vv[1] ELSE est.vh[1]
                   dano == danoDeGolpe(round.tipoGolpe)
                   defN == [defensor EXCEPT !.vida = @ + dano]
                   vh1 == IF esHeroe THEN est.vh ELSE <<defN>> \o Tail(est.vh)
                   vv1 == IF esHeroe THEN <<defN>> \o Tail(est.vv) ELSE est.vv
                   entrada == [ronda |-> est.rondaNum,
                               atacante |-> atacante.id,
                               defensor |-> defensor.id,
                               tipoGolpe |-> round.tipoGolpe,
                               dano |-> dano,
                               vidasHeroes |-> instantanea(vh1),
                               vidasVillanos |-> instantanea(vv1),
                               vidaDefensor |-> defN.vida]
                   muere == defN.vida <= 0
               IN  procesarRondasSinValidar(
                       [est EXCEPT
                           !.vh = IF muere /\ ~esHeroe THEN Tail(vh1) ELSE vh1,
                           !.vv = IF muere /\ esHeroe THEN Tail(vv1) ELSE vv1,
                           !.historial = Append(@, entrada),
                           !.rondaNum = @ + 1],
                       Tail(rondas))

\* The for loop over the rounds of the request.  est holds the handler's
\* locals: the two queues, the history, the round counter, peleaFinalizada,
\* and the 400 the loop returns with on an invalid round ("" if none).
RECURSIVE procesarRondas(_, _)
procesarRondas(est, rondas) ==
    IF rondas = <<>> THEN est
    ELSE IF est.vh = <<>> \/ est.vv = <<>>
    THEN [est EXCEPT !.finalizada = TRUE]
    ELSE LET round == Head(rondas)
         IN  IF round.tipoGolpe \notin GolpesValidos
             THEN [est EXCEPT !.error = "tipoGolpe"]
             ELSE IF round.atacante \notin {"heroe", "villano"}
             THEN [est EXCEPT !.error = "atacante"]
             ELSE
               LET esHeroe == round.atacante = "heroe"
                   atacante == IF esHeroe THEN est.vh[1] ELSE est.vv[1]
                   defensor == IF esHeroe THEN est.vv[1] ELSE est.vh[1]
                   dano == danoDeGolpe(round.tipoGolpe)
                   defN == [defensor EXCEPT !.vida = @ + dano]
                   vh1 == IF esHeroe THEN est.vh ELSE <<defN>> \o Tail(est.vh)
                   vv1 == IF esHeroe THEN <<defN>> \o Tail(est.vv) ELSE est.vv
                   entrada == [ronda |-> est.rondaNum,
                               atacante |-> atacante.id,
                               defensor |-> defensor.id,
                               tipoGolpe |-> round.tipoGolpe,
                               dano |-> dano,
                               vidasHeroes |-> instantanea(vh1),
                               vidasVillanos |-> instantanea(vv1),
                               vidaDefensor |-> defN.vida]
                   muere == defN.vida <= 0
               IN  procesarRondas(
                       [est EXCEPT
                           !.vh = IF muere /\ ~esHeroe THEN Tail(vh1) ELSE vh1,
                           !.vv = IF muere /\ esHeroe THEN Tail(vv1) ELSE vv1,
                           !.historial = Append(@, entrada),
                           !.rondaNum = @ + 1],
                       Tail(rondas))

estadoInicial(vh, vv, historial, rondaNum) ==
    [vh |-> vh, vv |-> vv, historial |-> historial, rondaNum |-> rondaNum,
     finalizada |-> FALSE, error |-> ""]

\* The result computed after the loop
resultadoDe(vh, vv) ==
    IF Len(vh) > 0 /\ Len(vv) = 0 THEN "ganan superheroes"
    ELSE IF Len(vv) > 0 /\ Len(vh) = 0 THEN "ganan villanos"
    ELSE "inconclusa"

\* peleaFinalizada after the result has been computed
peleaFinalizada(est) ==
    est.finalizada \/ resultadoDe(est.vh, est.vv) # "inconclusa"

\* personajes.map(p => <p is in a team> ? { ...p, vida: 100 } : p)
personajesRestablecidos(lista, heroes, villanos) ==
    [i \in DOMAIN lista |->
        IF \/ \E k \in DOMAIN heroes : heroes[k].id = lista[i].id
           \/ \E k \in DOMAIN villanos : villanos[k].id = lista[i].id
        THEN [lista[i] EXCEPT !.vida = VidaEquipo * PorCien]
        ELSE lista[i]]

idsDe(equipo) == [i \in DOMAIN equipo |-> equipo[i].id]

\* Faulty variant: the last stored fight when none matches.
buscarPeleaOUltima(lista, fightId) ==
    IF \E i \in DOMAIN lista : lista[i].fightId = fightId
    THEN CHOOSE i \in DOMAIN lista :
             /\ lista[i].fightId = fightId
             /\ \A j \in 1..(i - 1) : lista[j].fightId # fightId
    ELSE Len(lista)

\* fights.find(f => f.fightId === fightId): the index of the first match, 0
\* if none
buscarPelea(lista, fightId) ==
    IF \E i \in DOMAIN lista : lista[i].fightId = fightId
    THEN CHOOSE i \in DOMAIN lista :
             /\ lista[i].fightId = fightId
             /\ \A j \in 1..(i - 1) : lista[j].fightId # fightId
    ELSE 0

\* Faulty variant: a continuation stores the rounds of the request alone,
\* without the entries the record already had.
guardarPeleaSoloNuevas(lista, heroes, villanos, est, indice) ==
    LET resultado == resultadoDe(est.vh, est.vv)
        fightId == IF indice = 0 THEN nuevoFightId(fights)
                   ELSE fights[indice].fightId
    IN  /\ fights' =
              IF indice = 0
              THEN Append(fights,
                       [SinFight EXCEPT !.fightId = fightId,
                                        !.conHistorial = TRUE,
                                        !.equipoHeroes = idsDe(heroes),
                                        !.equipoVillanos = idsDe(villanos),
                                        !.resultado = resultado,
                                        !.historial = est.historial])
              ELSE [fights EXCEPT
                       ![indice].historial =
                           SubSeq(est.historial,
                                  Len(fights[indice].historial) + 1,
                                  Len(est.historial)),
                       ![indice].resultado = resultado]
        /\ personajes' =
              IF peleaFinalizada(est)
              THEN savePersonajes(personajesRestablecidos(lista, heroes, villanos))
              ELSE personajes
        /\ resp' = [SinResp EXCEPT !.status = 200, !.fightId = fightId,
                                   !.resultado = resultado]
        /\ asignados' = IF indice = 0 THEN Append(asignados, fightId)
                        ELSE asignados

\* The handler's tail shared by the three routes: result, stored record,
\* restored healths, response.  `indice` is the position of the fight being
\* continued in the stored list, 0 for a new fight.
guardarPelea(lista, heroes, villanos, est, indice) ==
    LET resultado == resultadoDe(est.vh, est.vv)
        fightId == IF indice = 0 THEN nuevoFightId(fights)
                   ELSE fights[indice].fightId
    IN  /\ fights' =
              IF indice = 0
              THEN Append(fights,
                       [SinFight EXCEPT !.fightId = fightId,
                                        !.conHistorial = TRUE,
                                        !.equipoHeroes = idsDe(heroes),
                                        !.equipoVillanos = idsDe(villanos),
                                        !.resultado = resultado,
                                        !.historial = est.historial])
              ELSE [fights EXCEPT ![indice].historial = est.historial,
                                  ![indice].resultado = resultado]
        /\ personajes' =
              IF peleaFinalizada(est)
              THEN savePersonajes(personajesRestablecidos(lista, heroes, villanos))
              ELSE personajes
        /\ resp' = [SinResp EXCEPT !.status = 200, !.fightId = fightId,
                                   !.resultado = resultado]
        /\ asignados' = IF indice = 0 THEN Append(asignados, fightId)
                        ELSE asignados

\* POST /fights/teams/start, and POST /fights/teams without fightId, where
\* numeroRonda (0 when absent) may give the first round number.
TeamsNueva(equipoHeroes, equipoVillanos, rondas, numeroRonda) ==
    LET lista == getPersonajes(personajes)
        heroes == equipoDe(lista, equipoHeroes, "superheroe")
        villanos == equipoDe(lista, equipoVillanos, "villano")
        est == procesarRondas(
                   estadoInicial(colaNueva(heroes), colaNueva(villanos), <<>>,
                                 oPorDefecto(numeroRonda, 1)),
                   rondas)
    IN  /\ pc = "idle"
        /\ IF Len(heroes) # TamEquipo \/ Len(villanos) # TamEquipo
           THEN /\ resp' = [SinResp EXCEPT !.status = 400, !.error = "equipos"]
                /\ UNCHANGED <<personajes, fights, npet, asignados>>
           ELSE IF est.error # ""
           THEN /\ resp' = [SinResp EXCEPT !.status = 400, !.error = est.error,
                                           !.ronda = est.rondaNum]
                /\ UNCHANGED <<personajes, fights, npet, asignados>>
           ELSE /\ npet < MaxPeticiones
                /\ guardarPelea(lista, heroes, villanos, est, 0)
                /\ npet' = npet + 1
        /\ UNCHANGED <<varsPersonaje, varsDuelo, npeleas, reconstruido,
                       simulado, enCurso>>

TeamsStart(equipoHeroes, equipoVillanos, rondas) ==
    TeamsNueva(equipoHeroes, equipoVillanos, rondas, 0)

TeamsConNumero(equipoHeroes, equipoVillanos, rondas, numeroRonda) ==
    /\ numeroRonda > 0
    /\ TeamsNueva(equipoHeroes, equipoVillanos, rondas, numeroRonda)

\* POST /fights/teams/continue, and POST /fights/teams with a fightId.
TeamsContinue(fightId, equipoHeroes, equipoVillanos, rondas, numeroRonda) ==
    LET lista == getPersonajes(personajes)
        heroes == equipoDe(lista, equipoHeroes, "superheroe")
        villanos == equipoDe(lista, equipoVillanos, "villano")
        indice == buscarPelea(fights, fightId)
        historial == fights[indice].historial
        vh == colaReconstruida(heroes, historial, "vidasHeroes")
        vv == colaReconstruida(villanos, historial, "vidasVillanos")
        est == procesarRondas(
                   estadoInicial(vh, vv, historial,
                                 oPorDefecto(numeroRonda, Len(historial) + 1)),
                   rondas)
    IN  /\ pc = "idle"
        /\ IF Len(heroes) # TamEquipo \/ Len(villanos) # TamEquipo
           THEN /\ resp' = [SinResp EXCEPT !.status = 400, !.error = "equipos"]
                /\ UNCHANGED <<personajes, fights, npet, reconstruido,
                               asignados>>
           ELSE IF indice = 0
           THEN /\ resp' = [SinResp EXCEPT !.status = 400, !.error = "fightId"]
                /\ UNCHANGED <<personajes, fights, npet, reconstruido,
                               asignados>>
           ELSE IF ~fights[indice].conHistorial
           \* [...fight.historial] of a record without historial throws
           THEN /\ resp' = [SinResp EXCEPT !.status = 500, !.error = "TypeError"]
                /\ UNCHANGED <<personajes, fights, npet, reconstruido,
                               asignados>>
           ELSE /\ npet < MaxPeticiones
                /\ reconstruido' = [fightId |-> fightId,
                                    heroes |-> instantanea(vh),
                                    villanos |-> instantanea(vv),
                                    previo |-> historial]
                /\ IF est.error # ""
                   THEN /\ resp' = [SinResp EXCEPT !.status = 400,
                                                   !.error = est.error,
                                                   !.ronda = est.rondaNum]
                        /\ UNCHANGED <<personajes, fights, asignados>>
                   ELSE guardarPelea(lista, heroes, villanos, est, indice)
                /\ npet' = npet + 1
        /\ UNCHANGED <<varsPersonaje, varsDuelo, npeleas, simulado, enCurso>>

(***************************************************************************)
(* SpecEquipos: team battles started and continued over a stored fight     *)
(* list that also receives one record of the random-winner POST /fights.   *)
(***************************************************************************)
ronda(atacante, tipoGolpe) == [atacante |-> atacante, tipoGolpe |-> tipoGolpe]

repetida(r, n) == [i \in 1..n |-> r]

\* The `rondas` arrays of the requests
Guiones ==
    { repetida(ronda("heroe", "critico"), TamEquipo),
      repetida(ronda("heroe", "critico"), TamEquipo * TamEquipo),
      repetida(ronda("villano", "critico"), TamEquipo * TamEquipo),
      <<ronda("villano", "basico"), ronda("heroe", "especial")>>,
      <<ronda("heroe", "critico"), ronda("heroe", "patada")>>,
      <<ronda("nadie", "basico")>> }

\* The request bodies: <<equipoHeroes, equipoVillanos, rondas>>, then
\* numeroRonda (0 when absent) and fightId where the route reads them.
\* Team "C" has no members and no fight has id 9.
GuionCorto == <<ronda("villano", "basico"), ronda("heroe", "especial")>>
FightIdsPedidos == {1, 2}
PeticionesStart ==
    {<<"A", "B", rondas>> : rondas \in Guiones} \cup {<<"A", "C", GuionCorto>>}
GuionMalo == <<ronda("heroe", "critico"), ronda("heroe", "patada")>>
PeticionesConNumero ==
    {<<"A", "B", rondas, 2>> : rondas \in {GuionCorto, GuionMalo}}
PeticionesContinue ==
    {<<fightId, "A", "B", rondas, 0>> :
        fightId \in FightIdsPedidos, rondas \in Guiones}
    \cup {<<1, "A", "B", rondas, 2>> : rondas \in {GuionCorto, GuionMalo}}
    \cup {<<9, "A", "B", GuionCorto, 0>>, <<1, "A", "C", GuionCorto, 0>>}
\* No character has id 8; 1 and 2 are both heroes
ParesAleatorios == {<<1, 4>>, <<8, 4>>}
ParesRechazados == {<<1, 8>>, <<8, 4>>, <<1, 2>>}

InitEquipos ==
    /\ personajes = savePersonajes(
           <<PersonajeDeNivel(1, "superheroe", "A", 1, 0, 0),
             PersonajeDeNivel(2, "superheroe", "A", 1, 0, 0),
             PersonajeDeNivel(3, "superheroe", "A", 2, 0, 0),
             PersonajeDeNivel(4, "villano", "B", 1, 0, 0),
             PersonajeDeNivel(5, "villano", "B", 1, 0, 0),
             PersonajeDeNivel(6, "villano", "B", 1, 0, 0),
             PersonajeDeNivel(7, "superheroe", "A", 1, 0, 0)>>)
    /\ fights = <<>>
    /\ pc = "idle"
    /\ cargados = <<>>
    /\ sim1 = SinSim
    /\ sim2 = SinSim
    /\ turno = 0
    /\ historia = <<>>
    /\ golpe = SinGolpe
    /\ debiles = 0
    /\ resp = SinResp
    /\ npeleas = 0
    /\ pj = SinPersonaje
    /\ pj0 = SinPersonaje
    /\ llamada = <<"new", 0>>
    /\ nops = 0
    /\ retorno = 0
    /\ reconstruido = SinColas
    /\ npet = 0
    /\ simulado = SinSimulado
    /\ enCurso = SinCursos
    /\ asignados = <<>>

NextEquipos ==
    \/ \E r \in PeticionesStart : TeamsStart(r[1], r[2], r[3])
    \/ \E r \in PeticionesConNumero : TeamsConNumero(r[1], r[2], r[3], r[4])
    \/ \E r \in PeticionesContinue :
          TeamsContinue(r[1], r[2], r[3], r[4], r[5])
    \/ \E par \in ParesAleatorios :
          npeleas = 0 /\ PostFightsAleatorio(par[1], par[2])
    \/ \E par \in ParesRechazados : PostFightsRechazo(par[1], par[2])

SpecEquipos == InitEquipos /\ [][NextEquipos]_vars

(***************************************************************************)
(* SpecRegistro: the stored fight list under creations and deletions       *)
(* (fightController.js: DELETE /fights/:fightId 852-862).                  *)
(***************************************************************************)
\* fights.splice(index, 1)
sinElemento(lista, index) ==
    SubSeq(lista, 1, index - 1) \o SubSeq(lista, index + 1, Len(lista))

DeleteFight(fightId) ==
    LET index == buscarPelea(fights, fightId)
    IN  /\ pc = "idle"
        /\ IF index = 0
           THEN /\ resp' = [SinResp EXCEPT !.status = 404,
                                           !.error = "noEncontrada"]
                /\ UNCHANGED fights
           ELSE /\ fights' = sinElemento(fights, index)
                /\ resp' = [SinResp EXCEPT !.status = 200,
                                           !.fightId = fightId]
        /\ UNCHANGED <<varsPersonaje, varsDuelo, varsEquipos, simulado, enCurso,
                       personajes, npeleas, asignados>>

\* The fightId of the DELETE requests
FightIdsBorrados == {1, 2, 3}

NextRegistro ==
    \/ TeamsStart("A", "B", GuionCorto)
    \/ PostFightsAleatorio(1, 4)
    \/ \E fightId \in FightIdsBorrados : DeleteFight(fightId)

SpecRegistro == InitEquipos /\ [][NextRegistro]_vars

(***************************************************************************)
(* SpecPlantilla: the team routes (src/controllers/teamController.js, and  *)
(* the generic POST /equipos of src/unnamed/part_003) and the character    *)
(* update and delete of src/services/heroService.js, over the persisted    *)
(* character list.  A character without team has equipo "".                *)
(***************************************************************************)
enIds(ids, id) == \E k \in DOMAIN ids : ids[k] = id

\* updateMany({ id: { $in: ids } }, { $set: { equipo } }) followed by
\* updateMany({ equipo, id: { $nin: ids } }, { $unset: { equipo: "" } })
asignarEquipo(lista, nombreEquipo, ids) ==
    [i \in DOMAIN lista |->
        IF enIds(ids, lista[i].id)
        THEN [lista[i] EXCEPT !.equipo = nombreEquipo]
        ELSE IF lista[i].equipo = nombreEquipo
        THEN [lista[i] EXCEPT !.equipo = ""]
        ELSE lista[i]]

\* find({ id: { $in: ids } }): the stored characters whose id is listed
conIdEn(lista, ids) == SelectSeq(lista, LAMBDA p : enIds(ids, p.id))

RespuestaDePlantilla(status, error) ==
    resp' = [SinResp EXCEPT !.status = status, !.error = error]

SoloPersonajes ==
    UNCHANGED <<varsPersonaje, varsDuelo, varsEquipos, simulado, enCurso, fights,
                npeleas, asignados>>

\* POST /equipos/superheroes and POST /equipos/villanos
CrearEquipoDeTipo(tipo, nombreEquipo, ids) ==
    /\ LET hallados == conIdEn(personajes, ids)
       IN  IF Len(ids) # TamEquipo
           THEN RespuestaDePlantilla(400, "ids") /\ UNCHANGED personajes
           ELSE IF \/ Len(hallados) # TamEquipo
                   \/ \E k \in DOMAIN hallados : hallados[k].tipo # tipo
           THEN RespuestaDePlantilla(400, "tipo") /\ UNCHANGED personajes
           ELSE /\ personajes' = asignarEquipo(personajes, nombreEquipo, ids)
                /\ RespuestaDePlantilla(200, "")
    /\ SoloPersonajes

\* POST /equipos of part_003: the listed characters get the team name, and
\* no other character loses it
CrearEquipoGenerico(nombreEquipo, ids) ==
    /\ LET lista == getPersonajes(personajes)
       IN  IF Len(ids) # TamEquipo
           THEN RespuestaDePlantilla(400, "ids") /\ UNCHANGED personajes
           ELSE IF \E k \in DOMAIN ids : buscar(lista, ids[k]) = 0
           THEN RespuestaDePlantilla(400, "existir") /\ UNCHANGED personajes
           ELSE IF \E k \in DOMAIN ids :
                      lista[buscar(lista, ids[k])].tipo
                          # lista[buscar(lista, ids[1])].tipo
           THEN RespuestaDePlantilla(400, "tipo") /\ UNCHANGED personajes
           ELSE /\ personajes' = savePersonajes(
                       [i \in DOMAIN lista |->
                           IF enIds(ids, lista[i].id)
                           THEN [lista[i] EXCEPT !.equipo = nombreEquipo]
                           ELSE lista[i]])
                /\ RespuestaDePlantilla(200, "")
    /\ SoloPersonajes

\* PUT /equipos
ModificarEquipo(nombreEquipo, ids) ==
    /\ LET integrantesActuales ==
               SelectSeq(personajes, LAMBDA p : p.equipo = nombreEquipo)
       IN  IF Len(ids) # TamEquipo
           THEN RespuestaDePlantilla(400, "ids") /\ UNCHANGED personajes
           ELSE IF Len(integrantesActuales) = 0
           THEN RespuestaDePlantilla(400, "noExiste") /\ UNCHANGED personajes
           ELSE IF Len(SelectSeq(conIdEn(personajes, ids),
                          LAMBDA p : p.tipo = integrantesActuales[1].tipo))
                      # TamEquipo
           THEN RespuestaDePlantilla(400, "tipo") /\ UNCHANGED personajes
           ELSE /\ personajes' = asignarEquipo(personajes, nombreEquipo, ids)
                /\ RespuestaDePlantilla(200, "")
    /\ SoloPersonajes

\* DELETE /equipos
EliminarEquipo(nombreEquipo) ==
    /\ IF ~\E i \in DOMAIN personajes : personajes[i].equipo = nombreEquipo
       THEN RespuestaDePlantilla(400, "noExiste") /\ UNCHANGED personajes
       ELSE /\ personajes' =
                  [i \in DOMAIN personajes |->
                      IF personajes[i].equipo = nombreEquipo
                      THEN [personajes[i] EXCEPT !.equipo = ""]
                      ELSE personajes[i]]
            /\ RespuestaDePlantilla(200, "")
    /\ SoloPersonajes

\* PUT /personajes/:id with a body of one field: updatePersonaje(id, body)
UpdatePersonaje(id, campo, valor) ==
    /\ LET lista == getPersonajes(personajes)
           index == buscar(lista, id)
       IN  IF index = 0
           THEN RespuestaDePlantilla(500, "noEncontrado")
                /\ UNCHANGED personajes
           ELSE /\ personajes' = savePersonajes(
                       [lista EXCEPT ![index] =
                           IF campo = "equipo" THEN [@ EXCEPT !.equipo = valor]
                           ELSE [@ EXCEPT !.tipo = valor]])
                /\ RespuestaDePlantilla(200, "")
    /\ SoloPersonajes

\* DELETE /personajes/:id: deletePersonaje(id)
DeletePersonaje(id) ==
    /\ LET lista == getPersonajes(personajes)
       IN  IF buscar(lista, id) = 0
           THEN RespuestaDePlantilla(500, "noEncontrado")
                /\ UNCHANGED personajes
           ELSE /\ personajes' = savePersonajes(
                       SelectSeq(lista, LAMBDA p : p.id # id))
                /\ RespuestaDePlantilla(200, "")
    /\ SoloPersonajes

\* The requests: team names, id lists, and the fields of the PUT bodies.
\* No character has id 9.
NombresPedidos == {"A", "X"}
IdsPedidos == {<<1, 2, 7>>, <<4, 5, 6>>, <<1, 2, 4>>, <<1, 2>>, <<1, 2, 9>>}
CuerposPedidos == {<<7, "equipo", "X">>, <<3, "tipo", "villano">>,
                   <<9, "equipo", "X">>}
PersonajesBorrados == {3, 9}

\* Team A of three heroes, team B of three villains, and a hero without team
InitPlantilla ==
    /\ personajes = savePersonajes(
           <<PersonajeDeNivel(1, "superheroe", "A", 1, 0, 0),
             PersonajeDeNivel(2, "superheroe", "A", 1, 0, 0),
             PersonajeDeNivel(3, "superheroe", "A", 2, 0, 0),
             PersonajeDeNivel(4, "villano", "B", 1, 0, 0),
             PersonajeDeNivel(5, "villano", "B", 1, 0, 0),
             PersonajeDeNivel(6, "villano", "B", 1, 0, 0),
             PersonajeDeNivel(7, "superheroe", "", 1, 0, 0)>>)
    /\ fights = <<>>
    /\ pc = "idle"
    /\ cargados = <<>>
    /\ sim1 = SinSim
    /\ sim2 = SinSim
    /\ turno = 0
    /\ historia = <<>>
    /\ golpe = SinGolpe
    /\ debiles = 0
    /\ resp = SinResp
    /\ npeleas = 0
    /\ pj = SinPersonaje
    /\ pj0 = SinPersonaje
    /\ llamada = <<"new", 0>>
    /\ nops = 0
    /\ retorno = 0
    /\ reconstruido = SinColas
    /\ npet = 0
    /\ simulado = SinSimulado
    /\ enCurso = SinCursos
    /\ asignados = <<>>

NextPlantilla ==
    \/ \E tipo \in {"superheroe", "villano"}, nombreEquipo \in NombresPedidos,
          ids \in IdsPedidos : CrearEquipoDeTipo(tipo, nombreEquipo, ids)
    \/ \E nombreEquipo \in NombresPedidos, ids \in IdsPedidos :
          CrearEquipoGenerico(nombreEquipo, ids)
    \/ \E nombreEquipo \in NombresPedidos, ids \in IdsPedidos :
          ModificarEquipo(nombreEquipo, ids)
    \/ \E nombreEquipo \in NombresPedidos : EliminarEquipo(nombreEquipo)
    \/ \E c \in CuerposPedidos : UpdatePersonaje(c[1], c[2], c[3])
    \/ \E id \in PersonajesBorrados : DeletePersonaje(id)

SpecPlantilla == InitPlantilla /\ [][NextPlantilla]_vars

(***************************************************************************)
(* Simulated team battle (src/unnamed/part_004 175-229): POST /fights/teams *)
(* without rounds.  The front members fight turn by turn with attacks      *)
(* drawn by calcularAtaque(); the handler stores nothing.                  *)
(***************************************************************************)
RondasSimuladas == 3    \* part_004: for (let i = 0; i < 3; i++)

\* calcularAtaque(): -45, -30 or -5 according to Math.random()
AtaquesSimulados == {0 - DanoCritico, 0 - DanoEspecial, 0 - DanoBasico}

\* vivosHeroes.length > 0 ? '¡Ganan los superhéroes!' : '¡Ganan los villanos!'
resultadoSimulado(vivosHeroes, vivosVillanos) ==
    IF Len(vivosHeroes) > 0 THEN "ganan superheroes" ELSE "ganan villanos"

\* The request up to the first turn of the first round, or its 400
SimuladoInicio(equipoHeroes, equipoVillanos) ==
    LET lista == getPersonajes(personajes)
        heroes == equipoDe(lista, equipoHeroes, "superheroe")
        villanos == equipoDe(lista, equipoVillanos, "villano")
    IN  /\ simulado.pc = "idle"
        /\ IF Len(heroes) # TamEquipo \/ Len(villanos) # TamEquipo
           THEN /\ resp' = [SinResp EXCEPT !.status = 400, !.error = "equipos"]
                /\ UNCHANGED simulado
           ELSE /\ simulado' = [pc |-> "while",
                                vivosHeroes |-> instantanea(colaNueva(heroes)),
                                vivosVillanos |->
                                    instantanea(colaNueva(villanos)),
                                i |-> 0, turno |-> 0, rondas |-> <<>>]
                /\ resp' = SinResp
        /\ UNCHANGED <<varsPersonaje, varsDuelo, varsAlmacen, varsEquipos,
                       npeleas, asignados, enCurso>>

\* One pass of the while loop: the hero attacks on even turns
SimuladoTurno(ataque) ==
    /\ simulado.pc = "while"
    /\ simulado.vivosHeroes[1].vida > 0
    /\ simulado.vivosVillanos[1].vida > 0
    /\ simulado' =
          IF simulado.turno % 2 = 0
          THEN [simulado EXCEPT !.vivosVillanos[1].vida = @ + ataque,
                                !.turno = @ + 1]
          ELSE [simulado EXCEPT !.vivosHeroes[1].vida = @ + ataque,
                                !.turno = @ + 1]
    /\ UNCHANGED <<varsPersonaje, varsDuelo, varsAlmacen, varsEquipos,
                   npeleas, asignados, enCurso, resp>>

\* The end of a round: the loser is shifted out, the round is recorded, and
\* either the next round starts or the loop ends and the response is sent.
SimuladoFinDeRonda ==
    /\ simulado.pc = "while"
    /\ ~(simulado.vivosHeroes[1].vida > 0 /\ simulado.vivosVillanos[1].vida > 0)
    /\ LET heroe == simulado.vivosHeroes[1]
           villano == simulado.vivosVillanos[1]
           caeHeroe == heroe.vida <= 0
           vh == IF caeHeroe THEN Tail(simulado.vivosHeroes)
                 ELSE simulado.vivosHeroes
           vv == IF caeHeroe THEN simulado.vivosVillanos
                 ELSE Tail(simulado.vivosVillanos)
           registro == [ronda |-> simulado.i + 1, heroe |-> heroe.id,
                        villano |-> villano.id,
                        resultado |-> IF caeHeroe THEN villano.id
                                      ELSE heroe.id]
           i == simulado.i + 1
           sigue == i < RondasSimuladas /\ Len(vh) > 0 /\ Len(vv) > 0
       IN  /\ simulado' = [pc |-> IF sigue THEN "while" ELSE "idle",
                           vivosHeroes |-> vh, vivosVillanos |-> vv,
                           i |-> i, turno |-> 0,
                           rondas |-> Append(simulado.rondas, registro)]
           /\ resp' = IF sigue THEN resp
                      ELSE [SinResp EXCEPT
                               !.status = 200,
                               !.resultado = resultadoSimulado(vh, vv)]
    /\ UNCHANGED <<varsPersonaje, varsDuelo, varsAlmacen, varsEquipos,
                   npeleas, asignados, enCurso>>

\* The request bodies: <<equipoHeroes, equipoVillanos>>; team "C" is empty
PeticionesSimuladas == {<<"A", "B">>, <<"A", "C">>}

NextSimulado ==
    \/ \E r \in PeticionesSimuladas : SimuladoInicio(r[1], r[2])
    \/ \E ataque \in AtaquesSimulados : SimuladoTurno(ataque)
    \/ SimuladoFinDeRonda

SpecSimulado == InitEquipos /\ [][NextSimulado]_vars

(***************************************************************************)
(* SpecDuelosSolapados: POST /fights requests in flight at once            *)
(* (fightController.js 104-217).  A handler runs from one await to the     *)
(* next without interruption: it is suspended at the load of line 118 and  *)
(* at the save of line 191, and another request's handler may run there.   *)
(***************************************************************************)
\* The draws of the overlapping duels
TiradasFuertes == {"criticoEspecial", "especial"}

\* req.body of request k: <<id1, id2>>, the pairs of distinct requests disjoint
parDe(k) == <<2 * k - 1, 2 * k>>

\* Request k from the completion of getAllPersonajes() to the loop, or its 400
SolapadoCarga(k) ==
    /\ enCurso[k].pc = "libre"
    /\ LET lista == getPersonajes(personajes)
           i1 == buscar(lista, parDe(k)[1])
           i2 == buscar(lista, parDe(k)[2])
       IN  enCurso' =
              [enCurso EXCEPT ![k] =
                  IF i1 = 0 \/ i2 = 0
                  THEN [SinCurso EXCEPT !.pc = "respondida", !.status = 400]
                  ELSE IF lista[i1].tipo = lista[i2].tipo
                  THEN [SinCurso EXCEPT !.pc = "respondida", !.status = 400]
                  ELSE [SinCurso EXCEPT
                           !.pc = "bucle",
                           !.personajes = lista,
                           !.sim1 = [lista[i1] EXCEPT
                                        !.vida = vidaDeNivel(lista[i1].nivel)],
                           !.sim2 = [lista[i2] EXCEPT
                                        !.vida = vidaDeNivel(lista[i2].nivel)]]]
    /\ UNCHANGED <<varsPersonaje, varsDuelo, varsAlmacen, varsEquipos,
                   simulado, asignados, resp, npeleas>>

\* One iteration of the loop of request k
SolapadoTurno(k) ==
    LET e == enCurso[k]
        atacante == IF atacaPrimero(e.turno) THEN e.sim1 ELSE e.sim2
        defensor == IF atacaPrimero(e.turno) THEN e.sim2 ELSE e.sim1
        conUltimate == atacante.ultimateDisponible
    IN  /\ e.pc = "bucle"
        /\ sigueDuelo(e.sim1, e.sim2)
        /\ \E tirada \in TiradasFuertes :
              LET ataque == IF conUltimate THEN usarUltimateRet(atacante)
                            ELSE ataqueDeTirada(atacante, tirada)
                  trasUsar == IF conUltimate THEN usarUltimate(atacante)
                              ELSE atacante
                  defensorN == recibirDanio(defensor, ataque, conUltimate)
                  atacanteN == cargarUltimate(trasUsar, ataque)
              IN  enCurso' =
                     [enCurso EXCEPT
                         ![k].sim1 = IF atacaPrimero(e.turno) THEN atacanteN
                                     ELSE defensorN,
                         ![k].sim2 = IF atacaPrimero(e.turno) THEN defensorN
                                     ELSE atacanteN,
                         ![k].turno = @ + 1]
        /\ UNCHANGED <<varsPersonaje, varsDuelo, varsAlmacen, varsEquipos,
                       simulado, asignados, resp, npeleas>>

\* After the loop of request k: experience, write-back onto the characters
\* the request loaded, and the save of that whole list.
SolapadoGuarda(k) ==
    LET e == enCurso[k]
        ganador == ganadorDe(e.sim1, e.sim2)
        i1 == buscar(e.personajes, e.sim1.id)
        i2 == buscar(e.personajes, e.sim2.id)
        simDe(p) == IF p.id = e.sim1.id THEN e.sim1 ELSE e.sim2
        trasExp(p) == ganarExperiencia(simDe(p), expOtorgada(ganador, p))
        lista == [i \in DOMAIN e.personajes |->
                     IF i = i1 \/ i = i2
                     THEN copiarEnOriginal(e.personajes[i],
                                           trasExp(e.personajes[i]))
                     ELSE e.personajes[i]]
    IN  /\ e.pc = "bucle"
        /\ ~sigueDuelo(e.sim1, e.sim2)
        /\ personajes' = savePersonajes(lista)
        /\ enCurso' = [enCurso EXCEPT ![k].pc = "respondida",
                                      ![k].status = 200,
                                      ![k].personajes = lista]
        /\ resp' = [SinResp EXCEPT !.status = 200, !.ganador = ganador.id,
                                   !.personaje1 = e.sim1.id,
                                   !.personaje2 = e.sim2.id]
        /\ UNCHANGED <<varsPersonaje, varsDuelo, varsEquipos, simulado,
                       asignados, fights, npeleas>>

\* Experience every stored character starts with
ExperienciasPrevias == {0, 75}

InitDuelosSolapados ==
    /\ \E x \in ExperienciasPrevias :
          personajes = savePersonajes(
              [i \in 1..(2 * MaxSolapadas) |->
                  PersonajeDeNivel(i, IF i % 2 = 1 THEN "superheroe"
                                      ELSE "villano", "", 1, x, 0)])
    /\ fights = <<>>
    /\ pc = "idle"
    /\ cargados = <<>>
    /\ sim1 = SinSim
    /\ sim2 = SinSim
    /\ turno = 0
    /\ historia = <<>>
    /\ golpe = SinGolpe
    /\ debiles = 0
    /\ resp = SinResp
    /\ npeleas = 0
    /\ pj = SinPersonaje
    /\ pj0 = SinPersonaje
    /\ llamada = <<"", 0>>
    /\ nops = 0
    /\ retorno = 0
    /\ reconstruido = SinColas
    /\ npet = 0
    /\ simulado = SinSimulado
    /\ asignados = <<>>
    /\ enCurso = SinCursos

NextDuelosSolapados ==
    \/ \E k \in Solapadas : SolapadoCarga(k)
    \/ \E k \in Solapadas : SolapadoTurno(k)
    \/ \E k \in Solapadas : SolapadoGuarda(k)

SpecDuelosSolapados == InitDuelosSolapados /\ [][NextDuelosSolapados]_vars

(***************************************************************************)
(* SpecEquiposSolapados: POST /fights/teams/start requests in flight at    *)
(* once (fightController.js 304-418).  The handler is suspended at the     *)
(* load of the characters, at getFights() (373), at saveFights() (383) and *)
(* at updateAllPersonajes() (392).                                         *)
(***************************************************************************)
\* Request k from the completion of getAllPersonajes() to the call of
\* getFights(), or its 400
EquiposSolapadoCarga(k, equipoHeroes, equipoVillanos, rondas) ==
    LET lista == getPersonajes(personajes)
        heroes == equipoDe(lista, equipoHeroes, "superheroe")
        villanos == equipoDe(lista, equipoVillanos, "villano")
        est == procesarRondas(
                   estadoInicial(colaNueva(heroes), colaNueva(villanos), <<>>,
                                 1),
                   rondas)
    IN  /\ enCurso[k].pc = "libre"
        /\ enCurso' =
              [enCurso EXCEPT ![k] =
                  IF Len(heroes) # TamEquipo \/ Len(villanos) # TamEquipo
                  THEN [SinCurso EXCEPT !.pc = "respondida", !.status = 400]
                  ELSE IF est.error # ""
                  THEN [SinCurso EXCEPT !.pc = "respondida", !.status = 400]
                  ELSE [SinCurso EXCEPT
                           !.pc = "getFights",
                           !.personajes =
                               personajesRestablecidos(lista, heroes, villanos),
                           !.finalizada = peleaFinalizada(est),
                           !.fight =
                               [SinFight EXCEPT
                                   !.conHistorial = TRUE,
                                   !.equipoHeroes = idsDe(heroes),
                                   !.equipoVillanos = idsDe(villanos),
                                   !.resultado = resultadoDe(est.vh, est.vv),
                                   !.historial = est.historial]]]
        /\ UNCHANGED <<varsPersonaje, varsDuelo, varsAlmacen, varsEquipos,
                       simulado, asignados, resp, npeleas>>

\* getFights() resolves: the new id, the record pushed, saveFights() called
EquiposSolapadoLee(k) ==
    LET e == enCurso[k]
        newFightId == nuevoFightId(fights)
    IN  /\ e.pc = "getFights"
        /\ enCurso' =
              [enCurso EXCEPT
                  ![k].pc = "saveFights",
                  ![k].newFightId = newFightId,
                  ![k].fight.fightId = newFightId,
                  ![k].fightsAll =
                      Append(fights, [e.fight EXCEPT !.fightId = newFightId])]
        /\ UNCHANGED <<varsPersonaje, varsDuelo, varsAlmacen, varsEquipos,
                       simulado, asignados, resp, npeleas>>

\* saveFights(fightsAll) resolves: the list of the request is the stored one
EquiposSolapadoGuarda(k) ==
    LET e == enCurso[k]
    IN  /\ e.pc = "saveFights"
        /\ fights' = e.fightsAll
        /\ asignados' = Append(asignados, e.newFightId)
        /\ IF e.finalizada
           THEN /\ enCurso' = [enCurso EXCEPT ![k].pc = "updateAllPersonajes"]
                /\ UNCHANGED resp
           ELSE /\ enCurso' = [enCurso EXCEPT ![k].pc = "respondida",
                                              ![k].status = 200]
                /\ resp' = [SinResp EXCEPT !.status = 200,
                                           !.fightId = e.newFightId,
                                           !.resultado = e.fight.resultado]
        /\ UNCHANGED <<varsPersonaje, varsDuelo, varsEquipos, simulado,
                       personajes, npeleas>>

\* updateAllPersonajes(personajesRestablecidos) resolves, the response is sent
EquiposSolapadoRestablece(k) ==
    LET e == enCurso[k]
    IN  /\ e.pc = "updateAllPersonajes"
        /\ personajes' = savePersonajes(e.personajes)
        /\ enCurso' = [enCurso EXCEPT ![k].pc = "respondida",
                                      ![k].status = 200]
        /\ resp' = [SinResp EXCEPT !.status = 200, !.fightId = e.newFightId,
                                   !.resultado = e.fight.resultado]
        /\ UNCHANGED <<varsPersonaje, varsDuelo, varsEquipos, simulado,
                       asignados, fights, npeleas>>

NextEquiposSolapados ==
    \/ \E k \in Solapadas : \E r \in PeticionesStart :
          EquiposSolapadoCarga(k, r[1], r[2], r[3])
    \/ \E k \in Solapadas : EquiposSolapadoLee(k)
    \/ \E k \in Solapadas : EquiposSolapadoGuarda(k)
    \/ \E k \in Solapadas : EquiposSolapadoRestablece(k)

SpecEquiposSolapados == InitEquipos /\ [][NextEquiposSolapados]_vars

(***************************************************************************)
(* Properties                                                              *)
(***************************************************************************)
CamposDeProgreso(p) ==
    <<p.nivel, p.experiencia, p.escudo, p.vida, p.danoUltimate,
      p.umbralUltimate, p.ultimateDisponible>>

EsTurno == pc = "bucle" /\ pc' = "bucle" /\ turno' = turno + 1
EsFinDeDuelo == pc = "bucle" /\ pc' = "idle"

\* C1: a 1v1 duel always terminates.  Every turn leaves the attacker's health
\* as it was and strictly lowers the defender's, which never goes below 0;
\* and a duel in progress always reaches its end.
C1_DueloTermina ==
    /\ [][EsTurno =>
            LET primero == atacaPrimero(turno)
                defAntes == IF primero THEN sim2 ELSE sim1
                defDespues == IF primero THEN sim2' ELSE sim1'
                atAntes == IF primero THEN sim1 ELSE sim2
                atDespues == IF primero THEN sim1' ELSE sim2'
            IN  /\ defDespues.vida < defAntes.vida
                /\ defDespues.vida >= 0
                /\ atDespues.vida = atAntes.vida]_vars
    /\ ((pc = "bucle") ~> (pc = "idle"))

\* The smallest hit there is, a level-1 basic attack on a level-10 shield,
\* has just been dealt and has removed 2.75 points of health.
C1_Testigo ==
    /\ pc = "bucle"
    /\ golpe.tipo = "basico"
    /\ golpe.ataque = BasicoBase
    /\ golpe.vidaAntes - golpe.vidaDespues = 275
    /\ \E s \in {sim1, sim2} : s.id = golpe.defensor /\ s.escudo = 45

\* C2: whenever ultimateDisponible is true, dañoUltimate >= umbralUltimate,
\* for the persisted characters and for the simulation copies of a duel.
C2_ListoImplicaCarga ==
    /\ \A i \in DOMAIN personajes :
          personajes[i].ultimateDisponible =>
              personajes[i].danoUltimate >= personajes[i].umbralUltimate
    /\ pc = "bucle" =>
          \A s \in {sim1, sim2} :
              s.ultimateDisponible => s.danoUltimate >= s.umbralUltimate

\* The members a history has eliminated: those a round left at health <= 0.
eliminadoEn(historial, id) ==
    \E k \in DOMAIN historial :
        historial[k].defensor = id /\ historial[k].vidaDefensor <= 0

PeleasDeEquipos == {i \in DOMAIN fights : fights[i].conHistorial}

\* C3: when a team battle is continued, no member eliminated in the stored
\* history is put back in a rebuilt queue, and every member in a rebuilt
\* queue has the health the last stored round's snapshot records for it.
C3_ColasReconstruidas ==
    reconstruido.fightId # 0 =>
        LET previo == reconstruido.previo
            ultima == previo[Len(previo)]
        IN  /\ \A i \in DOMAIN reconstruido.heroes :
                  LET m == reconstruido.heroes[i]
                  IN  /\ ~eliminadoEn(previo, m.id)
                      /\ \E k \in DOMAIN ultima.vidasHeroes :
                            ultima.vidasHeroes[k] = m
            /\ \A i \in DOMAIN reconstruido.villanos :
                  LET m == reconstruido.villanos[i]
                  IN  /\ ~eliminadoEn(previo, m.id)
                      /\ \E k \in DOMAIN ultima.vidasVillanos :
                            ultima.vidasVillanos[k] = m

\* C4: the stored result of a team battle is a win for one side exactly when
\* every member of the opposing team has been eliminated over the whole
\* stored history, inconclusive exactly when neither team has been, and both
\* teams are never eliminated at once.
C4_ResultadoDeEquipos ==
    \A i \in PeleasDeEquipos :
        LET f == fights[i]
            caidos(equipo) ==
                \A k \in DOMAIN equipo : eliminadoEn(f.historial, equipo[k])
        IN  /\ f.resultado \in {"ganan superheroes", "ganan villanos",
                                "inconclusa"}
            /\ f.resultado = "ganan superheroes" <=> caidos(f.equipoVillanos)
            /\ f.resultado = "ganan villanos" <=> caidos(f.equipoHeroes)
            /\ ~(caidos(f.equipoVillanos) /\ caidos(f.equipoHeroes))

\* C5: the round numbers of every stored history are strictly increasing
\* and contiguous, whatever continuation requests have appended to it, those
\* that supply numeroRonda included.
C5_RondasContiguas ==
    \A i \in PeleasDeEquipos :
        LET h == fights[i].historial
        IN  \A k \in 1..(Len(h) - 1) : h[k + 1].ronda = h[k].ronda + 1

\* subirNivel() called k times in a row
RECURSIVE subirNiveles(_, _)
subirNiveles(p, k) == IF k = 0 THEN p ELSE subirNiveles(subirNivel(p), k - 1)

\* C11: a character that starts at level 1 with shield 0 and changes level
\* only through level-ups has shield (level-1)*5 in every reachable state
\* and starts a 1v1 duel with health 100 + (level-1)*5, for every level in
\* 1..10 (health is in hundredths).
C11_EscudoYVidaDeNivel ==
    /\ \A i \in DOMAIN personajes :
          personajes[i].escudo = (personajes[i].nivel - 1) * 5
    /\ pc = "bucle" =>
          \A s \in {sim1, sim2} :
              /\ s.escudo = (s.nivel - 1) * 5
              /\ turno = 0 => s.vida = (100 + (s.nivel - 1) * 5) * PorCien
    /\ \A k \in 0..(NivelMax - 1) :
          LET q == subirNiveles(Personaje(1, "superheroe", "", 1, 0, 0, 0,
                                          UmbralInicial, FALSE), k)
          IN  /\ q.nivel = k + 1
              /\ q.escudo = k * 5
              /\ q.vida = (100 + k * 5) * PorCien

\* The hero has gone from level 1 to level 2 in a first duel and starts a
\* second one with shield 5 and health 105.
C11_Testigo ==
    /\ pc = "bucle" /\ turno = 0 /\ npeleas = 2
    /\ sim1.id = 1 /\ sim1.nivel = 2
    /\ sim1.escudo = 5 /\ sim1.vida = 105 * PorCien
    /\ personajes[1].nivel = 2 /\ personajes[1].escudo = 5

\* 150 and t -> round(t * 1.1) applied k times, k = 0..9
UmbralesEsperados == <<150, 165, 182, 200, 220, 242, 266, 293, 322, 354>>

EsLlamada(nombre) == llamada'[1] = nombre /\ nops' = nops + 1

\* C12: umbralUltimate never decreases across level-ups; after k level-ups
\* from level 1 it is 150, 165, 182, 200, 220, 242, 266, 293, 322, 354 for
\* k = 0..9; a level-up attempted at level 10 leaves it (and the object)
\* unchanged.
C12_UmbralDeNivel ==
    /\ \A k \in 0..(NivelMax - 1) :
          subirNiveles(Personaje(1, "superheroe", "", 1, 0, 0, 0,
                                 UmbralInicial, FALSE), k).umbralUltimate
              = UmbralesEsperados[k + 1]
    /\ [](pj.umbralUltimate = UmbralesEsperados[pj.nivel])
    /\ [][pj'.umbralUltimate >= pj.umbralUltimate]_vars
    /\ [][(EsLlamada("subirNivel") /\ pj.nivel = 10) => pj' = pj]_vars

\* A level-up has taken a level-9 object to level 10 and threshold 354, or
\* found it there, and a further level-up has just been attempted.
C12_Testigo ==
    /\ nops = 2
    /\ llamada[1] = "subirNivel"
    /\ pj0.nivel = 10 /\ pj0.umbralUltimate = 354
    /\ pj.nivel = 10 /\ pj.umbralUltimate = 354

\* C13: recibirDanio never leaves health below 0: for every health >= 0,
\* damage >= 0, shield 0..45 and either value of esUltimate, the resulting
\* health is max(0, health - effective damage), and nothing else changes.
C13_VidaNoNegativa ==
    /\ pj.vida >= 0
    /\ llamada[1] = "recibirDanio" =>
          LET efectivo == danioEfectivo(pj0, llamada[2][1], llamada[2][2])
              resta == pj0.vida - efectivo
          IN  /\ pj0.vida >= 0 /\ efectivo >= 0
              /\ pj0.escudo \in 0..45
              /\ pj = [pj0 EXCEPT !.vida = IF resta > 0 THEN resta ELSE 0]

\* A hit larger than the health left has floored a shielded, already
\* wounded defender at 0.
C13_Testigo ==
    /\ llamada[1] = "recibirDanio"
    /\ pj0.escudo = 45
    /\ pj0.vida > 0 /\ pj0.vida < vidaDeNivel(pj0.nivel)
    /\ pj0.vida < danioEfectivo(pj0, llamada[2][1], llamada[2][2])
    /\ pj.vida = 0

\* C14: the health recibirDanio removes (short of the floor at 0) is
\* danio - danio*escudo/100 when the hit is not an ultimate and escudo > 0,
\* and exactly danio otherwise; an ultimate removes from a shielded defender
\* what it removes from an unshielded one (health is in hundredths).
C14_DanioEfectivo ==
    llamada[1] = "recibirDanio" =>
        LET danio == llamada[2][1]
            esUltimate == llamada[2][2]
            esperado == IF ~esUltimate /\ pj0.escudo > 0
                        THEN danio * 100 - danio * pj0.escudo
                        ELSE danio * 100
        IN  /\ pj0.vida >= esperado => pj0.vida - pj.vida = esperado
            /\ pj0.vida < esperado => pj.vida = 0
            /\ esUltimate =>
                  pj.vida = recibirDanio([pj0 EXCEPT !.escudo = 0],
                                         danio, TRUE).vida

\* An ultimate of 80 has taken 80 points from a defender with shield 45.
C14_Testigo ==
    /\ llamada = <<"recibirDanio", <<80, TRUE>>>>
    /\ pj0.escudo = 45
    /\ pj0.vida - pj.vida = 80 * PorCien

\* C15: usarUltimate called while ultimateDisponible is false returns 0 and
\* leaves the charge and the flag (and the whole object) unchanged; called
\* while it is true it returns 80 + (nivel-1)*10, sets the charge to 0 and
\* clears the flag.
C15_UsarUltimate ==
    llamada[1] = "usarUltimate" =>
        IF pj0.ultimateDisponible
        THEN /\ retorno = 80 + (pj0.nivel - 1) * 10
             /\ pj = [pj0 EXCEPT !.danoUltimate = 0,
                                 !.ultimateDisponible = FALSE]
        ELSE /\ retorno = 0
             /\ pj = pj0

\* A level-10 object whose charge a cargarUltimate call had brought to the
\* threshold has fired its ultimate for 170.
C15_Testigo ==
    /\ nops = 2
    /\ llamada[1] = "usarUltimate"
    /\ pj0.nivel = 10 /\ pj0.ultimateDisponible
    /\ pj0.danoUltimate > pj0.umbralUltimate
    /\ retorno = 170
    /\ pj.danoUltimate = 0 /\ ~pj.ultimateDisponible

\* C16: when a 1v1 duel ends, exactly one combatant has health 0 and the
\* other has health > 0; the reported winner is the one with health > 0,
\* and it made the last attack.
C16_UnGanador ==
    [][EsFinDeDuelo =>
         LET vivo == IF sim1.vida > 0 THEN sim1 ELSE sim2
             caido == IF sim1.vida > 0 THEN sim2 ELSE sim1
         IN  /\ vivo.vida > 0
             /\ caido.vida = 0
             /\ resp'.ganador = vivo.id
             /\ golpe.atacante = vivo.id /\ golpe.defensor = caido.id
             /\ Len(historia) = turno /\ turno > 0
             /\ historia[turno].atacante = vivo.id]_vars

\* The villain, named second in the request and so attacking second, has
\* won a duel between two fresh level-1 characters.
C16_Testigo ==
    /\ pc = "idle"
    /\ npeleas = 1
    /\ resp.status = 200
    /\ resp.personaje1 = 1 /\ resp.personaje2 = 2
    /\ resp.ganador = 2
    /\ personajes[1].experiencia = 25 /\ personajes[1].vida = 0
    /\ personajes[2].experiencia = 40 /\ personajes[2].vida > 0

noResuelve(id) == \A i \in DOMAIN personajes : personajes[i].id # id

SinCambios == UNCHANGED <<personajes, fights, varsDuelo, reconstruido>>

\* C17: a 1v1 fight request in which a character id does not resolve, and a
\* team continuation whose fightId does not resolve, are answered with an
\* error, run no simulation, and leave the persisted characters and the
\* stored fights as they were.
C17_NoEncontrado ==
    [][/\ \A par \in ParesRechazados \cup ParesAleatorios :
            (/\ noResuelve(par[1]) \/ noResuelve(par[2])
             /\ \/ PostFightsRechazo(par[1], par[2])
                \/ PostFightsAleatorio(par[1], par[2]))
            => (resp'.status = 400 /\ SinCambios)
       /\ \A r \in PeticionesContinue :
            (/\ \A i \in DOMAIN fights : fights[i].fightId # r[1]
             /\ TeamsContinue(r[1], r[2], r[3], r[4], r[5]))
            => (resp'.status = 400 /\ SinCambios)]_vars

\* With a team fight stored, a continuation has just been refused because
\* its fightId does not resolve.
C17_Testigo ==
    /\ resp.status = 400 /\ resp.error = "fightId"
    /\ PeleasDeEquipos # {}
    /\ \A i \in DOMAIN fights : fights[i].fightId # 9

tipoDe(id) == personajes[buscar(personajes, id)].tipo

\* C18: a 1v1 fight request whose two participants have the same kind (two
\* heroes, two villains, or the same character twice) is rejected before
\* any turn is simulated, and no character or fight record changes.
C18_MismoTipo ==
    [][\A par \in ParesPedidos :
          (/\ ~noResuelve(par[1]) /\ ~noResuelve(par[2])
           /\ tipoDe(par[1]) = tipoDe(par[2])
           /\ \/ PostFightsInicio(par[1], par[2])
              \/ PostFightsRechazo(par[1], par[2]))
          => (/\ resp'.status = 400 /\ resp'.error = "mismoTipo"
              /\ pc' = "idle" /\ turno' = 0
              /\ SinCambios)]_vars

\* After a duel has been fought, a request naming two heroes, or the same
\* character twice, has just been refused.
C18_Testigo ==
    /\ resp.status = 400 /\ resp.error = "mismoTipo"
    /\ npeleas = 1 /\ pc = "idle"
    /\ personajes[2].experiencia = 40

\* The persisted characters of the team and kind of character `id`
companerosDe(id) ==
    LET p == personajes[buscar(personajes, id)]
    IN  {i \in DOMAIN personajes :
            personajes[i].equipo = p.equipo /\ personajes[i].tipo = p.tipo}

\* C19: a team battle request is rejected, with no state change, whenever
\* a named team does not have exactly 3 members of the required kind, be
\* they fewer or more than 3: every stored team fight is between teams of
\* exactly 3.
C19_EquiposDeTres ==
    \A i \in PeleasDeEquipos :
        /\ \A k \in DOMAIN fights[i].equipoHeroes :
              Cardinality(companerosDe(fights[i].equipoHeroes[k])) = 3
        /\ \A k \in DOMAIN fights[i].equipoVillanos :
              Cardinality(companerosDe(fights[i].equipoVillanos[k])) = 3

rondaInvalida(r) ==
    \/ r.tipoGolpe \notin {"basico", "especial", "critico"}
    \/ r.atacante \notin {"heroe", "villano"}

\* The position of the first invalid round of a list, 0 if all are valid
primeraInvalida(rondas) ==
    IF \E k \in DOMAIN rondas : rondaInvalida(rondas[k])
    THEN CHOOSE k \in DOMAIN rondas :
             /\ rondaInvalida(rondas[k])
             /\ \A j \in 1..(k - 1) : ~rondaInvalida(rondas[j])
    ELSE 0

\* A team request that gets as far as the rounds: the teams are complete
\* and, for a continuation, the fight is a stored team fight.
LlegaALasRondas(fightId) ==
    /\ Len(equipoDe(personajes, "A", "superheroe")) = TamEquipo
    /\ Len(equipoDe(personajes, "B", "villano")) = TamEquipo
    /\ fightId # 0 =>
          \E i \in PeleasDeEquipos : fights[i].fightId = fightId

\* The steps that handle a start request with the rounds r[3], and a
\* continuation request with the rounds r[4]
PasoStart(r) == r[1] = "A" /\ r[2] = "B" /\ TeamsStart(r[1], r[2], r[3])
PasoContinue(r) ==
    /\ r[2] = "A" /\ r[3] = "B"
    /\ LlegaALasRondas(r[1])
    /\ TeamsContinue(r[1], r[2], r[3], r[4], r[5])

historialDe(lista, fightId) == lista[buscarPelea(lista, fightId)].historial

C21_EliminadoSaleDeLaCola ==
    \A i \in PeleasDeEquipos :
        LET h == fights[i].historial
        IN  \A k \in DOMAIN h :
                /\ h[k].vidaDefensor <= 0 =>
                      \A j \in (k + 1)..Len(h) :
                          /\ h[j].defensor # h[k].defensor
                          /\ h[j].atacante # h[k].defensor
                /\ (\A j \in 1..k : h[j].tipoGolpe = "critico"
                                    /\ h[j].defensor = h[k].defensor)
                      => /\ k = 1 => h[k].vidaDefensor = 55
                         /\ k = 2 => h[k].vidaDefensor = 10
                         /\ k = 3 => h[k].vidaDefensor <= 0

\* C22: no health recorded in a stored round history is negative, neither
\* the defender's remaining health nor a health in the snapshots of the two
\* teams: a lethal hit records 0.
C22_VidaRegistradaNoNegativa ==
    \A i \in PeleasDeEquipos :
        LET h == fights[i].historial
        IN  \A k \in DOMAIN h :
                /\ h[k].vidaDefensor >= 0
                /\ \A n \in DOMAIN h[k].vidasHeroes :
                      h[k].vidasHeroes[n].vida >= 0
                /\ \A n \in DOMAIN h[k].vidasVillanos :
                      h[k].vidasVillanos[n].vida >= 0

\* The queue a history entry leaves behind: the snapshot of the team, less
\* its front member when that is the defender the hit left at 0 or below.
colaTras(entrada, vidas) ==
    IF /\ entrada.vidaDefensor <= 0
       /\ vidas # <<>>
       /\ vidas[1].id = entrada.defensor
    THEN Tail(vidas)
    ELSE vidas

todosACien(ids) == [n \in DOMAIN ids |-> [id |-> ids[n], vida |-> VidaEquipo]]

\* The rounds `rondas`, appended to the history of the stored fight f after
\* its first n0 entries from the queues qh and qv, each took from the front
\* member of the attacked team the amount of its move type and left every
\* other health as it was.
EfectoDeRondas(f, n0, qh, qv, rondas) ==
    /\ Len(f.historial) > n0
    /\ Len(f.historial) <= n0 + Len(rondas)
    /\ \A k \in (n0 + 1)..Len(f.historial) :
          LET e == f.historial[k]
              round == rondas[k - n0]
              antesH == IF k = n0 + 1 THEN qh
                        ELSE colaTras(f.historial[k - 1],
                                      f.historial[k - 1].vidasHeroes)
              antesV == IF k = n0 + 1 THEN qv
                        ELSE colaTras(f.historial[k - 1],
                                      f.historial[k - 1].vidasVillanos)
              atacado == IF round.atacante = "heroe" THEN antesV ELSE antesH
              otro == IF round.atacante = "heroe" THEN antesH ELSE antesV
              quita == CASE round.tipoGolpe = "basico" -> 5
                         [] round.tipoGolpe = "especial" -> 30
                         [] round.tipoGolpe = "critico" -> 45
              golpeado == [id |-> atacado[1].id,
                           vida |-> atacado[1].vida - quita]
          IN  /\ e.tipoGolpe = round.tipoGolpe
              /\ e.dano = 0 - quita
              /\ e.defensor = atacado[1].id
              /\ e.atacante = otro[1].id
              /\ e.vidaDefensor = atacado[1].vida - quita
              /\ (IF round.atacante = "heroe" THEN e.vidasVillanos
                  ELSE e.vidasHeroes) = <<golpeado>> \o Tail(atacado)
              /\ (IF round.atacante = "heroe" THEN e.vidasHeroes
                  ELSE e.vidasVillanos) = otro

\* C23: every round of an accepted scripted request takes from the health
\* of the front defender 5, 30 or 45 according to its move type alone,
\* whatever the attacker's level and the defender's shield, and changes no
\* other member's health.
C23_DanoFijoPorGolpe ==
    [][/\ \A r \in PeticionesStart :
            (resp'.status = 200 /\ PasoStart(r))
            => LET f == fights'[Len(fights')]
               IN  EfectoDeRondas(f, 0, todosACien(f.equipoHeroes),
                                  todosACien(f.equipoVillanos), r[3])
       /\ \A r \in PeticionesContinue :
            (resp'.status = 200 /\ PasoContinue(r))
            => LET f == fights'[buscarPelea(fights', r[1])]
               IN  EfectoDeRondas(f, Len(historialDe(fights, r[1])),
                                  reconstruido'.heroes,
                                  reconstruido'.villanos, r[4])]_vars

\* A stored round in which the level-2 hero with shield 5 took a 'critico'
\* from full team health and was left at 55
C23_Testigo ==
    \E i \in PeleasDeEquipos :
        \E k \in DOMAIN fights[i].historial :
            LET e == fights[i].historial[k]
            IN  /\ e.defensor = 3
                /\ personajes[buscar(personajes, 3)].escudo = 5
                /\ e.tipoGolpe = "critico"
                /\ e.vidaDefensor = VidaEquipo - 45
                /\ e.vidasVillanos = todosACien(fights[i].equipoVillanos)

\* C24: after a team battle request that ends with a team exhausted, the
\* persisted health of each of the six participants is the full health of
\* its level.
C24_VidaRestablecida ==
    (resp.status = 200 /\ resp.resultado \in {"ganan superheroes",
                                              "ganan villanos"})
    => LET f == fights[buscarPelea(fights, resp.fightId)]
           participantes == {f.equipoHeroes[k] : k \in DOMAIN f.equipoHeroes}
                            \cup {f.equipoVillanos[k] :
                                      k \in DOMAIN f.equipoVillanos}
       IN  \A id \in participantes :
               LET p == personajes[buscar(personajes, id)]
               IN  p.vida = vidaDeNivel(p.nivel)

\* C25: when a simulated team battle has been answered, one team has no
\* members left, and the team reported as winner is the one that still has
\* a member while the opposing team has none.
C25_SimuladoHastaAgotar ==
    (simulado.pc = "idle" /\ simulado.i > 0 /\ resp.status = 200)
    => /\ Len(simulado.vivosHeroes) = 0 \/ Len(simulado.vivosVillanos) = 0
       /\ resp.resultado = "ganan superheroes"
             => /\ Len(simulado.vivosHeroes) > 0
                /\ Len(simulado.vivosVillanos) = 0
       /\ resp.resultado = "ganan villanos"
             => /\ Len(simulado.vivosVillanos) > 0
                /\ Len(simulado.vivosHeroes) = 0

\* C26: a continuation request leaves every stored team fight with a
\* history of which the entries stored before are an unchanged prefix, in
\* the same order, and adds or removes no record.
C26_HistorialSoloCrece ==
    [][\A r \in PeticionesContinue :
          (fights' # fights /\ TeamsContinue(r[1], r[2], r[3], r[4], r[5]))
          => /\ Len(fights') = Len(fights)
             /\ \A i \in DOMAIN fights :
                   LET antes == fights[i].historial
                       despues == fights'[i].historial
                   IN  /\ fights'[i].fightId = fights[i].fightId
                       /\ Len(despues) >= Len(antes)
                       /\ SubSeq(despues, 1, Len(antes)) = antes]_vars

\* A continuation has added rounds to a stored history that had some
C26_Testigo ==
    /\ reconstruido.fightId # 0
    /\ Len(reconstruido.previo) > 0
    /\ resp.status = 200 /\ resp.fightId = reconstruido.fightId
    /\ LET h == historialDe(fights, reconstruido.fightId)
       IN  /\ Len(h) > Len(reconstruido.previo)
           /\ SubSeq(h, 1, Len(reconstruido.previo)) = reconstruido.previo

\* C27: the snapshots of every stored round list living members only:
\* every listed health is above 0, and the defender a round eliminated is
\* not listed in that round's snapshots.
C27_InstantaneasDeVivos ==
    \A i \in PeleasDeEquipos :
        LET h == fights[i].historial
        IN  \A k \in DOMAIN h :
                LET listados == [n \in DOMAIN (h[k].vidasHeroes
                                               \o h[k].vidasVillanos) |->
                                    (h[k].vidasHeroes \o h[k].vidasVillanos)[n]]
                IN  \A n \in DOMAIN listados :
                        /\ listados[n].vida > 0
                        /\ h[k].vidaDefensor <= 0
                              => listados[n].id # h[k].defensor

\* C28: the fightIds assigned to created records are positive and each is
\* greater than every fightId assigned before it, whatever creations and
\* deletions have taken place, and no two stored records share a fightId.
C28_FightIdCreciente ==
    /\ \A n \in DOMAIN asignados : asignados[n] > 0
    /\ \A n \in DOMAIN asignados :
          \A m \in 1..(n - 1) : asignados[m] < asignados[n]
    /\ \A i \in DOMAIN fights :
          \A j \in DOMAIN fights : i # j => fights[i].fightId # fights[j].fightId

\* C29: every team name in use is held by exactly 3 characters, all of the
\* same kind.  (A character has one team field, so it is never in two
\* teams.)
C29_EquiposCompletos ==
    \A i \in DOMAIN personajes :
        personajes[i].equipo # "" =>
            LET miembros == {j \in DOMAIN personajes :
                                personajes[j].equipo = personajes[i].equipo}
            IN  /\ Cardinality(miembros) = TamEquipo
                /\ \A j \in miembros : personajes[j].tipo = personajes[i].tipo

\* C30: in a 1v1 duel the first combatant (id1) attacks on the even turns
\* and the second on the odd ones, so the attackers of consecutive turns
\* alternate, and every turn appends exactly one entry to the turn log, in
\* turn order.
C30_TurnosAlternos ==
    /\ [](pc = "bucle" =>
            /\ Len(historia) = turno
            /\ \A n \in DOMAIN historia :
                  /\ historia[n].atacante =
                        IF (n - 1) % 2 = 0 THEN sim1.id ELSE sim2.id
                  /\ historia[n].defensor =
                        IF (n - 1) % 2 = 0 THEN sim2.id ELSE sim1.id
                  /\ n > 1 => historia[n].atacante # historia[n - 1].atacante)
    /\ [][/\ \A par \in ParesPedidos :
                PostFightsInicio(par[1], par[2])
                => /\ sim1'.id = par[1] /\ sim2'.id = par[2]
                   /\ turno' = 0 /\ historia' = <<>>
          /\ EsTurno =>
                /\ Len(historia') = Len(historia) + 1
                /\ SubSeq(historia', 1, Len(historia)) = historia
                /\ historia'[Len(historia')].atacante =
                      IF turno % 2 = 0 THEN sim1.id ELSE sim2.id]_vars

\* Three turns into the duel requested for characters 2 and 1, attacked by
\* 2, 1 and 2
C30_Testigo ==
    /\ pc = "bucle"
    /\ turno = 3
    /\ sim1.id = 2 /\ sim2.id = 1
    /\ historia = <<[atacante |-> 2, defensor |-> 1],
                    [atacante |-> 1, defensor |-> 2],
                    [atacante |-> 2, defensor |-> 1]>>

\* C31: in every turn of a 1v1 duel whose attacker has its ultimate flag
\* set, the attack is the ultimate, of 80 + (level - 1) * 10, taken from the
\* defender's health in full whatever its shield; in every turn whose
\* attacker has the flag clear, the attack is not an ultimate.
C31_UltimateSiListo ==
    [][EsTurno =>
          LET atacante == IF turno % 2 = 0 THEN sim1 ELSE sim2
              defensor == IF turno % 2 = 0 THEN sim2 ELSE sim1
              ultimate == UltimateBase + (atacante.nivel - 1) * UltimatePorNivel
              resto == defensor.vida - ultimate * PorCien
          IN  IF atacante.ultimateDisponible
              THEN /\ golpe'.esUltimate
                   /\ golpe'.tipo = "ultimate"
                   /\ golpe'.ataque = ultimate
                   /\ golpe'.vidaAntes = defensor.vida
                   /\ golpe'.vidaDespues = IF resto < 0 THEN 0 ELSE resto
              ELSE /\ ~golpe'.esUltimate
                   /\ golpe'.tipo \in Tiradas]_vars

\* A level-10 attacker has just used its ultimate of 170 on a defender at
\* full health 145 with shield 45, which lost all of it: more than the 93.5
\* a mitigated hit would have removed
C31_Testigo ==
    /\ pc = "bucle"
    /\ golpe.esUltimate
    /\ golpe.ataque = 170
    /\ (IF golpe.defensor = sim1.id THEN sim1 ELSE sim2).escudo = 45
    /\ golpe.vidaAntes = 145 * PorCien
    /\ golpe.vidaDespues = 0

\* C32: in every turn of a 1v1 duel the attacker's charge grows by the raw
\* attack value of the turn, whatever health the defender's shield let it
\* lose: after the turn it is the charge the attacker had (0 when the turn
\* used the ultimate, which resets it) plus the attack value, unless the
\* attacker is at level 10 with a charge at or above its threshold, which
\* leaves the charge as it was.
C32_CargaPorAtaqueBruto ==
    [][EsTurno =>
          LET primero == turno % 2 = 0
              antes == IF primero THEN sim1 ELSE sim2
              despues == IF primero THEN sim1' ELSE sim2'
              base == IF antes.ultimateDisponible THEN 0
                      ELSE antes.danoUltimate
          IN  despues.danoUltimate =
                  IF antes.nivel >= NivelMax /\ base >= antes.umbralUltimate
                  THEN base
                  ELSE base + golpe'.ataque]_vars

\* After the first turn of a duel the attacker's charge is the attack value
\* while the shielded defender, still alive, lost less health than that
C32_Testigo ==
    /\ pc = "bucle"
    /\ turno = 1
    /\ ~golpe.esUltimate
    /\ sim2.escudo > 0
    /\ golpe.vidaDespues > 0
    /\ golpe.vidaAntes - golpe.vidaDespues < golpe.ataque * PorCien
    /\ sim1.danoUltimate = golpe.ataque
    /\ sim1.danoUltimate > 0

\* C33: both combatants of every accepted 1v1 request start the duel with
\* health 100 + (level - 1) * 5 for the level persisted for them, whatever
\* health is persisted for them.
C33_VidaInicialDeNivel ==
    [][\A par \in ParesPedidos :
          PostFightsInicio(par[1], par[2])
          => LET p1 == personajes[buscar(personajes, par[1])]
                 p2 == personajes[buscar(personajes, par[2])]
             IN  /\ sim1'.id = par[1] /\ sim2'.id = par[2]
                 /\ sim1'.vida = (100 + (p1.nivel - 1) * 5) * PorCien
                 /\ sim2'.vida = (100 + (p2.nivel - 1) * 5) * PorCien]_vars

\* A second duel has just started for a level-10 character persisted with
\* health 0 by the duel it lost: it starts at 145
C33_Testigo ==
    /\ pc = "bucle"
    /\ turno = 0
    /\ npeleas = 2
    /\ \E s \in {sim1, sim2} :
          /\ personajes[buscar(personajes, s.id)].vida = 0
          /\ s.nivel = NivelMax
          /\ s.vida = 145 * PorCien

\* C34: cargarUltimate(danio) leaves the object as it was when it is at
\* level 10 with its charge at or above the threshold; otherwise it adds
\* danio to the charge, and the flag afterwards is set exactly when it was
\* set before or the new charge is at or above the threshold.  The charge is
\* never negative.
C34_CargarUltimate ==
    /\ pj.danoUltimate >= 0
    /\ llamada[1] = "cargarUltimate" =>
          LET danio == llamada[2]
              carga == pj0.danoUltimate + danio
          IN  IF pj0.nivel >= 10 /\ pj0.danoUltimate >= pj0.umbralUltimate
              THEN pj = pj0
              ELSE pj = [pj0 EXCEPT
                            !.danoUltimate = carga,
                            !.ultimateDisponible =
                                pj0.ultimateDisponible
                                \/ carga >= pj0.umbralUltimate]

\* A level-10 object charged to its threshold of 354 was given 170 more
\* and kept its charge
C34_Testigo ==
    /\ llamada = <<"cargarUltimate", 170>>
    /\ pj0.nivel = 10
    /\ pj0.danoUltimate = 354 /\ pj0.umbralUltimate = 354
    /\ pj.danoUltimate = 354 /\ pj.ultimateDisponible

\* C35: a continuation request leaves every stored team fight whose result
\* is a win for either side as it was: it appends no round to its history
\* and does not change its result.
C35_PeleaConcluidaTerminal ==
    [][\A r \in PeticionesContinue :
          (fights' # fights /\ TeamsContinue(r[1], r[2], r[3], r[4], r[5]))
          => \A i \in PeleasDeEquipos :
                 fights[i].resultado \in {"ganan superheroes", "ganan villanos"}
                 => /\ fights'[i].historial = fights[i].historial
                    /\ fights'[i].resultado = fights[i].resultado]_vars

\* C36: the end of a 1v1 fight leaves the persisted record of every
\* character other than its two participants identical to what it was,
\* health and team included.
C36_SoloLosParticipantes ==
    [][EsFinDeDuelo =>
          /\ Len(personajes') = Len(personajes)
          /\ \A i \in DOMAIN personajes :
                personajes[i].id \notin {sim1.id, sim2.id}
                => personajes'[i] = personajes[i]]_vars

\* The progression fields of a character record: everything a fight grants
\* or charges, health apart.
ProgresoDe(p) ==
    <<p.nivel, p.experiencia, p.escudo, p.danoUltimate, p.umbralUltimate,
      p.ultimateDisponible>>

TodasRespondidas ==
    \A k \in Solapadas : enCurso[k].pc = "respondida" /\ enCurso[k].status = 200

\* C37: once two overlapping 1v1 fights on disjoint pairs have both
\* completed, the persisted store holds the progression each of them wrote
\* for its two participants: neither write has erased the other's.
C37_AmbasEscriturasPersisten ==
    TodasRespondidas =>
        \A k \in Solapadas : \A n \in 1..2 :
            ProgresoDe(personajes[buscar(personajes, parDe(k)[n])]) =
                ProgresoDe(enCurso[k].personajes[
                               buscar(enCurso[k].personajes, parDe(k)[n])])

\* the stored record of request k, as a set of positions in the stored list
registrosDe(k) ==
    {i \in DOMAIN fights :
        /\ fights[i].fightId = enCurso[k].newFightId
        /\ fights[i].resultado = enCurso[k].fight.resultado
        /\ fights[i].historial = enCurso[k].fight.historial}

\* C38: once two overlapping team-battle starts have both completed, their
\* records are stored under distinct fightIds and both are in the stored
\* fight list.
C38_RegistrosDistintos ==
    TodasRespondidas =>
        /\ \A j, k \in Solapadas :
              j # k => enCurso[j].newFightId # enCurso[k].newFightId
        /\ \E f \in [Solapadas -> DOMAIN fights] :
              /\ \A k \in Solapadas : f[k] \in registrosDe(k)
              /\ \A j, k \in Solapadas : j # k => f[j] # f[k]

\* the combatant of the duel in progress with the given id
combatiente(s1, s2, id) == IF s1.id = id THEN s1 ELSE s2

\* C39: for characters whose threshold comes from level-ups from level 1, the
\* ultimate damage of every level 1..10 is below the threshold of that level;
\* the turn in which a combatant uses its ultimate leaves it with the flag
\* cleared and a charge equal to the ultimate damage just dealt, below its
\* threshold; the opponent's turn that follows leaves that flag cleared; and
\* only a combatant whose flag is set uses the ultimate.  Hence nobody uses
\* the ultimate on two consecutive turns of its own.
C39_SinUltimatesSeguidos ==
    /\ [](\A n \in 1..NivelMax :
             getAtaqueUltimate(PersonajeDeNivel(0, "", "", n, 0, 0))
                 < umbralDeNivel(n))
    /\ [][EsTurno /\ golpe'.esUltimate =>
             LET antes == combatiente(sim1, sim2, golpe'.atacante)
                 tras == combatiente(sim1', sim2', golpe'.atacante)
             IN  /\ antes.ultimateDisponible
                 /\ ~tras.ultimateDisponible
                 /\ tras.danoUltimate = golpe'.ataque
                 /\ golpe'.ataque = getAtaqueUltimate(antes)
                 /\ tras.danoUltimate < tras.umbralUltimate]_vars
    /\ [][EsTurno /\ golpe.esUltimate =>
             /\ golpe'.atacante = golpe.defensor
             /\ ~combatiente(sim1', sim2', golpe.atacante).ultimateDisponible
             /\ combatiente(sim1', sim2', golpe.atacante).danoUltimate
                    = golpe.ataque]_vars

\* An ultimate has just been used on a defender who survives it: the attacker
\* is left with the flag cleared and the ultimate damage as its charge, and
\* the duel goes on to the opponent's turn and then to the attacker's next.
C39_Testigo ==
    /\ pc = "bucle"
    /\ golpe.esUltimate
    /\ golpe.vidaDespues > 0
    /\ ~combatiente(sim1, sim2, golpe.atacante).ultimateDisponible
    /\ combatiente(sim1, sim2, golpe.atacante).danoUltimate = golpe.ataque

\* C6: every 1v1 fight that resolves appends exactly one record to the
\* stored fight list: between requests the list holds as many 1v1 records
\* as duels have resolved.
C6_DueloGuardaRegistro ==
    pc = "idle" =>
        Cardinality({i \in DOMAIN fights : ~fights[i].conHistorial}) = npeleas

\* C7: when a duel resolves, the combatant left with health > 0 is granted
\* 40 and the other 25 (40 > 25), each once, and the progression fields
\* persisted for both are those of their simulation copies after the grant.
C7_ExperienciaYEscritura ==
    [][EsFinDeDuelo =>
         LET gana1 == sim1.vida > 0
             ganador == IF gana1 THEN sim1 ELSE sim2
             perdedor == IF gana1 THEN sim2 ELSE sim1
             guardado(id) == personajes'[buscar(personajes', id)]
         IN  /\ ExpGanador > ExpPerdedor
             /\ perdedor.vida = 0
             /\ CamposDeProgreso(guardado(ganador.id)) =
                    CamposDeProgreso(ganarExperiencia(ganador, ExpGanador))
             /\ CamposDeProgreso(guardado(perdedor.id)) =
                    CamposDeProgreso(ganarExperiencia(perdedor, ExpPerdedor))
             /\ resp'.ganador = ganador.id]_vars

\* The villain, named first in the request, has won the first duel between
\* two fresh level-1 characters: 40 for it, 25 for the hero.
C7_Testigo ==
    /\ pc = "idle"
    /\ npeleas = 1
    /\ resp.status = 200
    /\ resp.personaje1 = 2
    /\ resp.ganador = 2
    /\ personajes[2].nivel = 1 /\ personajes[2].experiencia = 40
    /\ personajes[1].nivel = 1 /\ personajes[1].experiencia = 25
    /\ personajes[1].vida = 0

\* C8: for a character of level L in 1..9 with experience e in 0..99,
\* ganarExperiencia(a), a >= 0, yields level min(10, L + (e+a) div 100) and
\* experience (e+a) mod 100 below level 10, 100 at level 10; and a level-1
\* character with 0 experience granted 250 ends at level 3 with 50.
C8_GanarExperiencia ==
    (llamada[1] = "ganarExperiencia" /\ pj0.nivel < NivelMax) =>
        LET total == pj0.experiencia + llamada[2]
            nivel == Min(NivelMax, pj0.nivel + total \div 100)
        IN  /\ pj.nivel = nivel
            /\ pj.experiencia = IF nivel < NivelMax THEN total % 100 ELSE 100
            /\ (pj0.nivel = 1 /\ pj0.experiencia = 0 /\ llamada[2] = 250) =>
                   (pj.nivel = 3 /\ pj.experiencia = 50)

C8_Testigo ==
    /\ llamada = <<"ganarExperiencia", 250>>
    /\ pj0.nivel = 1 /\ pj0.experiencia = 0
    /\ pj.nivel = 3 /\ pj.experiencia = 50

\* C9: ganarExperiencia on a level-10 character leaves level 10 and
\* experience 100 whatever the amount, and changes no other field.
C9_ExperienciaEnNivelMaximo ==
    (llamada[1] = "ganarExperiencia" /\ pj0.nivel = NivelMax) =>
        /\ pj.nivel = 10
        /\ pj.experiencia = 100
        /\ pj = [pj0 EXCEPT !.experiencia = 100]

C9_Testigo ==
    /\ llamada = <<"ganarExperiencia", 250>>
    /\ pj0.nivel = NivelMax /\ pj0.experiencia = 30
    /\ pj0.ultimateDisponible
    /\ pj.experiencia = 100

\* C10: through any sequence of 1v1 fights every character's level stays in
\* 1..10 and never decreases, its experience is in 0..99 below level 10, and
\* a participant that is at level 10 after a fight has experience 100.
C10_NivelYExperiencia ==
    /\ [](\A i \in DOMAIN personajes :
            /\ personajes[i].nivel \in 1..10
            /\ personajes[i].nivel < 10 => personajes[i].experiencia \in 0..99
            /\ personajes[i].nivel = 10 => personajes[i].experiencia \in 0..100)
    /\ [][\A i \in DOMAIN personajes :
            /\ personajes'[i].nivel >= personajes[i].nivel
            /\ (EsFinDeDuelo /\ personajes[i].id \in {sim1.id, sim2.id}
                   /\ personajes'[i].nivel = 10)
               => personajes'[i].experiencia = 100]_vars

\* After two duels the hero has gone from level 9 to level 10 and both
\* combatants are pinned at experience 100.
C10_Testigo ==
    /\ pc = "idle"
    /\ npeleas = 2
    /\ personajes[1].nivel = 10 /\ personajes[1].experiencia = 100
    /\ personajes[1].umbralUltimate = 354
    /\ personajes[2].nivel = 10 /\ personajes[2].experiencia = 100

=============================================================================
